---- MODULE Spec2Model ----
(***************************************************************************)
(* Model of the WoL server (wol_server.py): validate_mac, validate_ip,     *)
(* create_magic_packet, send_magic_packet, the WoLHandler of the HTTP      *)
(* server and the process-wide server_stats counters they update; of the   *)
(* handlers of the Flask server (wol-server/app.py); of the forwarder      *)
(* (docker/wol_forwarder.py), whose threads update its stats; and of the   *)
(* packet builders of the scripts.                                         *)
(*                                                                         *)
(* A Python str is a sequence of one-character strings.  A Python value    *)
(* handed to a validator is a record [type, chars, num]: type is the       *)
(* Python type name, chars the text of a str, num the value of an int or   *)
(* bool, or the number of elements of a list or dict.                      *)
(***************************************************************************)
EXTENDS Integers, Sequences, FiniteSets, TLC

VARIABLES input, server_stats, last, environ, handlers, completed, forwarder

vars == <<input, server_stats, last, environ, handlers, completed, forwarder>>

(***************************************************************************)
(* Bounds of the model                                                     *)
(***************************************************************************)
\* calls stop once security_violations has reached this value
MaxViolations == 2

\* direct calls of send_magic_packet stop once magic_packets_sent has
\* reached this value
MaxPackets == 2

\* the server takes this many requests
MaxRequests == 2

\* client connections that may be open at the same time
NumConnections == 2

\* handler threads of the forwarder alive at a time, and datagrams it receives
NumThreads == 2

MaxDatagrams == 3

(***************************************************************************)
(* Program constants                                                       *)
(***************************************************************************)
MAX_MAC_LENGTH == 50
MAX_IP_LENGTH == 15
PACKET_SIZE == 102
MAX_REQUEST_SIZE == 1024
MAX_NAME_LENGTH == 100

(***************************************************************************)
(* Python str primitives                                                   *)
(***************************************************************************)
ascii_lowercase ==
  <<"a","b","c","d","e","f","g","h","i","j","k","l","m",
    "n","o","p","q","r","s","t","u","v","w","x","y","z">>

ascii_uppercase ==
  <<"A","B","C","D","E","F","G","H","I","J","K","L","M",
    "N","O","P","Q","R","S","T","U","V","W","X","Y","Z">>

hexdigits == <<"0","1","2","3","4","5","6","7","8","9","A","B","C","D","E","F">>

digits == <<"0","1","2","3","4","5","6","7","8","9">>

\* characters that str.strip(), the regex class \s and int() treat as blank
\* (the ones the arguments below are written with)
whitespace == {" ", "\t", "\n", "\r"}

Range(s) == {s[i] : i \in 1..Len(s)}

IndexOf(seq, c) == CHOOSE i \in 1..Len(seq) : seq[i] = c

lowercase_letters == Range(ascii_lowercase)

uppercase_letters == Range(ascii_uppercase)

to_upper == [c \in lowercase_letters |-> ascii_uppercase[IndexOf(ascii_lowercase, c)]]

to_lower == [c \in uppercase_letters |-> ascii_lowercase[IndexOf(ascii_uppercase, c)]]

hex_chars == Range(hexdigits)

digit_chars == Range(digits)

upper_char(c) == IF c \in lowercase_letters THEN to_upper[c] ELSE c

lower_char(c) == IF c \in uppercase_letters THEN to_lower[c] ELSE c

upper(s) == [i \in 1..Len(s) |-> upper_char(s[i])]

lower(s) == [i \in 1..Len(s) |-> lower_char(s[i])]

\* pattern in s
contains(s, pattern) ==
  \E i \in 0..(Len(s) - Len(pattern)) : SubSeq(s, i + 1, i + Len(pattern)) = pattern

startswith(s, prefix) ==
  Len(s) >= Len(prefix) /\ SubSeq(s, 1, Len(prefix)) = prefix

SetMin(S) == CHOOSE m \in S : \A k \in S : m <= k

SetMax(S) == CHOOSE m \in S : \A k \in S : m >= k

strip(s) ==
  LET keep == {i \in 1..Len(s) : s[i] \notin whitespace}
  IN  IF keep = {} THEN <<>> ELSE SubSeq(s, SetMin(keep), SetMax(keep))

separator_class == {":", "-"} \cup whitespace

NotSeparator(c) == c \notin separator_class

\* re.sub(r'[:\-\s]', '', s)
re_sub_separators(s) == SelectSeq(s, NotSeparator)

RECURSIVE split(_, _)
split(s, sep) ==
  IF sep \notin Range(s)
  THEN <<s>>
  ELSE LET i == SetMin({k \in 1..Len(s) : s[k] = sep})
       IN  <<SubSeq(s, 1, i - 1)>> \o split(SubSeq(s, i + 1, Len(s)), sep)

Repeat(s, n) == [i \in 1..(n * Len(s)) |-> s[((i - 1) % Len(s)) + 1]]

(***************************************************************************)
(* Python values                                                           *)
(***************************************************************************)
Str(chars) == [type |-> "str", chars |-> chars, num |-> 0]

None == [type |-> "NoneType", chars |-> <<>>, num |-> 0]

IntValue(n) == [type |-> "int", chars |-> <<>>, num |-> n]

BoolValue(n) == [type |-> "bool", chars |-> <<>>, num |-> n]

EmptyList == [type |-> "list", chars |-> <<>>, num |-> 0]

EmptyDict == [type |-> "dict", chars |-> <<>>, num |-> 0]

\* bool(x): the truth value Python's `not x` negates
truthy(x) ==
  CASE x.type = "str" -> x.chars # <<>>
    [] x.type = "NoneType" -> FALSE
    [] OTHER -> x.num # 0

isinstance_str(x) == x.type = "str"

(***************************************************************************)
(* validate_mac                                                            *)
(***************************************************************************)
mac_dangerous_patterns ==
  { <<"'",";">>,
    <<"'","\"">>,
    <<"-","-">>,
    <<"/","*">>,
    <<"*","/">>,
    <<"$","{">>,
    <<"<","s","c","r","i","p","t">>,
    <<".",".","/">>,
    <<"\\","x">>,
    <<"d","r","o","p"," ","t","a","b","l","e">>,
    <<"d","e","l","e","t","e"," ","f","r","o","m">>,
    <<"i","n","s","e","r","t"," ","i","n","t","o">>,
    <<"u","p","d","a","t","e"," ">>,
    <<"s","e","l","e","c","t"," ">>,
    <<"u","n","i","o","n"," ","s","e","l","e","c","t">>,
    <<"e","x","e","c","(">>,
    <<"e","v","a","l","(">>,
    <<"s","y","s","t","e","m","(">>,
    <<"_","_","i","m","p","o","r","t","_","_">> }

invalid_macs == { Repeat(<<"0">>, 12), Repeat(<<"F">>, 12) }

\* the value a validator returns, the amount it adds to
\* server_stats["security_violations"], and the return statement it left by
Verdict(ok, violations, step) == [ok |-> ok, violations |-> violations, step |-> step]

\* mac_clean without the .upper() of line 112
mac_clean_case_sensitive(chars) == re_sub_separators(strip(chars))

\* mac_clean as validate_mac computes it (lines 103 and 112)
mac_clean_of(chars) == re_sub_separators(upper(strip(chars)))

\* the mixed-separator test left out
mac_mixed_separators_unchecked(chars) == FALSE

mac_has_mixed_separators(chars) ==
  LET mac_trimmed == strip(chars)
  IN  ":" \in Range(mac_trimmed) /\ "-" \in Range(mac_trimmed)

\* the all-same-digit test left out
mac_all_same_unchecked(mac_clean) == FALSE

mac_all_same_digits(mac_clean) == Cardinality(Range(mac_clean)) <= 1

\* validate_mac with the injection check placed after the structural parsing
validate_mac_parse_first(mac_address) ==
  LET mac_lower == lower(mac_address.chars)
      mac_clean == mac_clean_of(mac_address.chars)
  IN  IF ~truthy(mac_address) \/ ~isinstance_str(mac_address)
      THEN Verdict(FALSE, 0, "absent")
      ELSE IF Len(mac_address.chars) > MAX_MAC_LENGTH
      THEN Verdict(FALSE, 1, "too_long")
      ELSE IF mac_has_mixed_separators(mac_address.chars)
      THEN Verdict(FALSE, 0, "mixed_separators")
      ELSE IF Len(mac_clean) # 12
      THEN Verdict(FALSE, 0, "length")
      ELSE IF \E i \in 1..12 : mac_clean[i] \notin hex_chars
      THEN Verdict(FALSE, 0, "not_hex")
      ELSE IF \E pattern \in mac_dangerous_patterns : contains(mac_lower, pattern)
      THEN Verdict(FALSE, 1, "dangerous_pattern")
      ELSE IF mac_clean \in invalid_macs
      THEN Verdict(FALSE, 0, "invalid_macs")
      ELSE IF mac_all_same_digits(mac_clean)
      THEN Verdict(FALSE, 0, "all_same")
      ELSE Verdict(TRUE, 0, "accepted")

validate_mac(mac_address) ==
  LET mac_lower == lower(mac_address.chars)
      mac_clean == mac_clean_of(mac_address.chars)
  IN  IF ~truthy(mac_address) \/ ~isinstance_str(mac_address)
      THEN Verdict(FALSE, 0, "absent")
      ELSE IF Len(mac_address.chars) > MAX_MAC_LENGTH
      THEN Verdict(FALSE, 1, "too_long")
      ELSE IF \E pattern \in mac_dangerous_patterns : contains(mac_lower, pattern)
      THEN Verdict(FALSE, 1, "dangerous_pattern")
      ELSE IF mac_has_mixed_separators(mac_address.chars)
      THEN Verdict(FALSE, 0, "mixed_separators")
      ELSE IF Len(mac_clean) # 12
      THEN Verdict(FALSE, 0, "length")
      ELSE IF \E i \in 1..12 : mac_clean[i] \notin hex_chars
      THEN Verdict(FALSE, 0, "not_hex")
      ELSE IF mac_clean \in invalid_macs
      THEN Verdict(FALSE, 0, "invalid_macs")
      ELSE IF mac_all_same_digits(mac_clean)
      THEN Verdict(FALSE, 0, "all_same")
      ELSE Verdict(TRUE, 0, "accepted")

(***************************************************************************)
(* create_magic_packet                                                     *)
(***************************************************************************)
hex_value(c) == IndexOf(hexdigits, upper_char(c)) - 1

is_hex(c) == upper_char(c) \in hex_chars

\* bytes.fromhex(s): pairs of hex digits, ASCII whitespace between pairs is
\* skipped, anything else raises ValueError (ok = FALSE)
RECURSIVE bytes_fromhex(_)
bytes_fromhex(s) ==
  IF s = <<>>
  THEN [ok |-> TRUE, bytes |-> <<>>]
  ELSE IF Head(s) \in whitespace
  THEN bytes_fromhex(Tail(s))
  ELSE IF Len(s) >= 2 /\ is_hex(s[1]) /\ is_hex(s[2])
  THEN LET rest == bytes_fromhex(SubSeq(s, 3, Len(s)))
       IN  [ok |-> rest.ok,
            bytes |-> <<16 * hex_value(s[1]) + hex_value(s[2])>> \o rest.bytes]
  ELSE [ok |-> FALSE, bytes |-> <<>>]

\* mac_clean with a pattern that removes ':' only
packet_mac_clean_colons_only(chars) == SelectSeq(upper(chars), LAMBDA c : c # ":")

\* mac_clean as create_magic_packet computes it (line 226)
packet_mac_clean(chars) == re_sub_separators(upper(chars))

\* the value create_magic_packet hands back: a packet or None; raised tells
\* whether an exception left the function
PacketResult(is_none, bytes, raised) == [is_none |-> is_none, bytes |-> bytes, raised |-> raised]

\* the try block with the 0xFF bytes placed after the MAC repetitions
create_magic_packet_trailer(mac_address) ==
  IF ~validate_mac(mac_address).ok
  THEN PacketResult(TRUE, <<>>, FALSE)
  ELSE LET mac_bytes == bytes_fromhex(packet_mac_clean(mac_address.chars))
           magic_packet == Repeat(mac_bytes.bytes, 16) \o Repeat(<<255>>, 6)
       IN  IF ~mac_bytes.ok
           THEN PacketResult(TRUE, <<>>, TRUE)
           ELSE IF Len(magic_packet) # PACKET_SIZE
           THEN PacketResult(TRUE, <<>>, FALSE)
           ELSE PacketResult(FALSE, magic_packet, FALSE)

\* the body of the try block (lines 221-239)
create_magic_packet_try(mac_address) ==
  IF ~validate_mac(mac_address).ok
  THEN PacketResult(TRUE, <<>>, FALSE)
  ELSE LET mac_bytes == bytes_fromhex(packet_mac_clean(mac_address.chars))
           magic_packet == Repeat(<<255>>, 6) \o Repeat(mac_bytes.bytes, 16)
       IN  IF ~mac_bytes.ok
           THEN PacketResult(TRUE, <<>>, TRUE)    \* bytes.fromhex raises ValueError
           ELSE IF Len(magic_packet) # PACKET_SIZE
           THEN PacketResult(TRUE, <<>>, FALSE)
           ELSE PacketResult(FALSE, magic_packet, FALSE)

\* except Exception: return None
create_magic_packet(mac_address) ==
  LET attempt == create_magic_packet_try(mac_address)
  IN  IF attempt.raised THEN PacketResult(TRUE, <<>>, FALSE) ELSE attempt

(***************************************************************************)
(* validate_ip                                                             *)
(***************************************************************************)
\* the character ` (a TLA+ string cannot hold it)
BACKTICK == "backtick"

ip_dangerous_patterns ==
  { <<"'",";">>,
    <<"'","\"">>,
    <<"$","{">>,
    <<"<">>,
    <<">">>,
    <<"&">>,
    <<"|">>,
    <<BACKTICK>>,
    <<"$","(">>,
    <<".",".","/">>,
    <<"\\","x">> }

rejected_ips ==
  { <<"0",".","0",".","0",".","0">>,
    <<"1","2","7",".","0",".","0",".","1">>,
    <<"2","5","5",".","2","5","5",".","2","5","5",".","2","5","5">> }

localhost_prefix == <<"1","2","7",".">>

RECURSIVE decimal_value(_)
decimal_value(ds) ==
  IF ds = <<>> THEN 0
  ELSE 10 * decimal_value(SubSeq(ds, 1, Len(ds) - 1)) + (IndexOf(digits, ds[Len(ds)]) - 1)

IsDigit(c) == c \in digit_chars

\* Python's int(text): surrounding whitespace is dropped, one sign is allowed,
\* single underscores may separate digits; anything else raises ValueError
\* (ok = FALSE)
py_int(text) ==
  LET t == strip(text)
      signed == t # <<>> /\ t[1] \in {"+", "-"}
      body == IF signed THEN Tail(t) ELSE t
      wellformed ==
        /\ body # <<>>
        /\ \A i \in 1..Len(body) : IsDigit(body[i]) \/ body[i] = "_"
        /\ IsDigit(body[1]) /\ IsDigit(body[Len(body)])
        /\ \A i \in 1..(Len(body) - 1) : ~(body[i] = "_" /\ body[i + 1] = "_")
      magnitude == decimal_value(SelectSeq(body, IsDigit))
  IN  IF ~wellformed THEN [ok |-> FALSE, value |-> 0]
      ELSE [ok |-> TRUE, value |-> IF signed /\ t[1] = "-" THEN 0 - magnitude ELSE magnitude]

\* one pass of the loop over parts (lines 181-189): TRUE when the part lets
\* the loop continue
ip_part_ok(part) ==
  LET num == py_int(part)
  IN  /\ ~(Len(part) > 1 /\ part[1] = "0")
      /\ num.ok
      /\ ~(num.value < 0 \/ num.value > 255)

\* validate_ip that trims its argument first, as validate_mac does
validate_ip_trimming(ip_address) ==
  LET trimmed == strip(ip_address.chars)
      parts == split(trimmed, ".")
  IN  IF ~truthy(ip_address) \/ ~isinstance_str(ip_address)
      THEN Verdict(FALSE, 0, "absent")
      ELSE IF Len(trimmed) > MAX_IP_LENGTH
      THEN Verdict(FALSE, 1, "too_long")
      ELSE IF \E pattern \in ip_dangerous_patterns : contains(trimmed, pattern)
      THEN Verdict(FALSE, 1, "dangerous_pattern")
      ELSE IF Len(parts) # 4
      THEN Verdict(FALSE, 0, "parts")
      ELSE IF \E i \in 1..4 : ~ip_part_ok(parts[i])
      THEN Verdict(FALSE, 0, "octet")
      ELSE IF trimmed \in rejected_ips
      THEN Verdict(FALSE, 0, "rejected_ips")
      ELSE IF startswith(trimmed, localhost_prefix)
      THEN Verdict(FALSE, 0, "localhost")
      ELSE Verdict(TRUE, 0, "accepted")

\* validate_ip with the length rejection left out of the counter
validate_ip_length_uncounted(ip_address) ==
  LET parts == split(ip_address.chars, ".")
  IN  IF ~truthy(ip_address) \/ ~isinstance_str(ip_address)
      THEN Verdict(FALSE, 0, "absent")
      ELSE IF \/ ip_address.chars # strip(ip_address.chars)
              \/ "\t" \in Range(ip_address.chars)
              \/ "\n" \in Range(ip_address.chars)
      THEN Verdict(FALSE, 0, "whitespace")
      ELSE IF Len(ip_address.chars) > MAX_IP_LENGTH
      THEN Verdict(FALSE, 0, "too_long")
      ELSE IF \E pattern \in ip_dangerous_patterns : contains(ip_address.chars, pattern)
      THEN Verdict(FALSE, 1, "dangerous_pattern")
      ELSE IF Len(parts) # 4
      THEN Verdict(FALSE, 0, "parts")
      ELSE IF \E i \in 1..4 : ~ip_part_ok(parts[i])
      THEN Verdict(FALSE, 0, "octet")
      ELSE IF ip_address.chars \in rejected_ips
      THEN Verdict(FALSE, 0, "rejected_ips")
      ELSE IF startswith(ip_address.chars, localhost_prefix)
      THEN Verdict(FALSE, 0, "localhost")
      ELSE Verdict(TRUE, 0, "accepted")

validate_ip(ip_address) ==
  LET parts == split(ip_address.chars, ".")
  IN  IF ~truthy(ip_address) \/ ~isinstance_str(ip_address)
      THEN Verdict(FALSE, 0, "absent")
      ELSE IF \/ ip_address.chars # strip(ip_address.chars)
              \/ "\t" \in Range(ip_address.chars)
              \/ "\n" \in Range(ip_address.chars)
      THEN Verdict(FALSE, 0, "whitespace")
      ELSE IF Len(ip_address.chars) > MAX_IP_LENGTH
      THEN Verdict(FALSE, 1, "too_long")
      ELSE IF \E pattern \in ip_dangerous_patterns : contains(ip_address.chars, pattern)
      THEN Verdict(FALSE, 1, "dangerous_pattern")
      ELSE IF Len(parts) # 4
      THEN Verdict(FALSE, 0, "parts")
      ELSE IF \E i \in 1..4 : ~ip_part_ok(parts[i])
      THEN Verdict(FALSE, 0, "octet")
      ELSE IF ip_address.chars \in rejected_ips
      THEN Verdict(FALSE, 0, "rejected_ips")
      ELSE IF startswith(ip_address.chars, localhost_prefix)
      THEN Verdict(FALSE, 0, "localhost")
      ELSE Verdict(TRUE, 0, "accepted")

(***************************************************************************)
(* send_magic_packet                                                       *)
(***************************************************************************)
DEFAULT_BROADCAST_IP == <<"1", "9", "2", ".", "1", "6", "8", ".", "1", ".", "2", "5", "5">>

WOL_PORT == 9

\* what the process reads at its start: the environment variable
\* WOL_BROADCAST_IP (None: not set) and, for the Flask server of
\* wol-server/app.py, the api_key of its configuration file
Environment(broadcast_ip, api_key) == [WOL_BROADCAST_IP |-> broadcast_ip, api_key |-> api_key]

\* os.getenv('WOL_BROADCAST_IP', '192.168.1.255')
getenv_broadcast_ip(env) ==
  IF env.WOL_BROADCAST_IP = None THEN DEFAULT_BROADCAST_IP ELSE env.WOL_BROADCAST_IP.chars

\* What the operating system does with the socket calls of one send:
\*   socket_raises      socket() raises OSError: no socket is made
\*   setsockopt_raises  settimeout() or setsockopt() raises OSError on the
\*                      socket made
\*   sendto_returns  sendto() returns bytes_sent
\*   sendto_timeout  sendto() raises socket.timeout
\*   sendto_raises   sendto() raises another OSError
\* text is str(e) of the exception raised
SocketOutcome(kind, bytes_sent, text) == [kind |-> kind, bytes_sent |-> bytes_sent, text |-> text]

\* byte counts sendto() may report
SendtoCounts == {0, 51, PACKET_SIZE - 1, PACKET_SIZE}

SocketOutcomes ==
  { SocketOutcome("sendto_returns", n, "") : n \in SendtoCounts } \cup
  { SocketOutcome("socket_raises", 0, "[Errno 24] Too many open files"),
    SocketOutcome("setsockopt_raises", 0, "[Errno 1] Operation not permitted"),
    SocketOutcome("sendto_timeout", 0, "timed out"),
    SocketOutcome("sendto_raises", 0, "[Errno 101] Network is unreachable") }

\* the result dict; keys lists the keys the dict holds
FailureResult(error, mac_address) ==
  [success |-> FALSE, error |-> error, mac |-> mac_address, target_ip |-> None,
   broadcast_ip |-> <<>>, port |-> 0, packet_size |-> 0,
   keys |-> {"success", "error", "mac"}]

SuccessResult(mac_address, target_ip, broadcast_ip, wol_port, bytes_sent) ==
  [success |-> TRUE, error |-> "", mac |-> mac_address, target_ip |-> target_ip,
   broadcast_ip |-> broadcast_ip, port |-> wol_port, packet_size |-> bytes_sent,
   keys |-> {"success", "mac", "target_ip", "broadcast_ip", "port", "packet_size", "timestamp"}]

\* a comparison that takes any transmitted byte for a complete send
sendto_complete_any_byte(bytes_sent, magic_packet) == bytes_sent > 0

\* bytes_sent == len(magic_packet) (line 287)
sendto_complete(bytes_sent, magic_packet) == bytes_sent = Len(magic_packet)

\* an address that follows the caller's ip when one is given
sendto_address_of_target(broadcast_ip, wol_port, target_ip) ==
  IF isinstance_str(target_ip) /\ truthy(target_ip)
  THEN [ip |-> target_ip.chars, port |-> wol_port]
  ELSE [ip |-> broadcast_ip, port |-> wol_port]

\* the address handed to sendto: (broadcast_ip, wol_port) (line 285)
sendto_address(broadcast_ip, wol_port, target_ip) == [ip |-> broadcast_ip, port |-> wol_port]

\* a sender that sends once more after a send that was not complete
sendto_calls_retried(datagram, complete) ==
  IF complete THEN <<datagram>> ELSE <<datagram, datagram>>

\* the calls of sendto of one send_magic_packet: the single call of line
\* 285, which no loop surrounds
sendto_calls(datagram, complete) == <<datagram>>

\* send_magic_packet(mac_address, target_ip) in an environment env, the
\* socket calls behaving as outcome says.  Besides the result dict it tells
\* the datagrams handed to sendto, what sendto returned (-1: not called or
\* raised), the increments of the counters and whether the socket was closed.
send_magic_packet(mac_address, target_ip, env, outcome) ==
  LET verdict == validate_mac(mac_address)
      magic_packet == create_magic_packet(mac_address)
      broadcast_ip == getenv_broadcast_ip(env)
      wol_port == WOL_PORT
      address == sendto_address(broadcast_ip, wol_port, target_ip)
      datagram == [address |-> address, size |-> Len(magic_packet.bytes)]
      \* opened: socket() returned a socket (line 275); closed: sock.close()
      \* of the finally clause of lines 308-309 ran
      Effects(result, datagrams, returned, packets_sent, opened, closed) ==
        [result |-> result, datagrams |-> datagrams, returned |-> returned,
         packets_sent |-> packets_sent, violations |-> verdict.violations,
         opened |-> opened, closed |-> closed]
  IN  IF magic_packet.is_none
      THEN Effects(FailureResult("Invalid MAC address format", mac_address), <<>>, -1, 0, FALSE, FALSE)
      ELSE IF outcome.kind = "socket_raises"
      THEN Effects(FailureResult("Network error", mac_address), <<>>, -1, 0, FALSE, FALSE)
      ELSE IF outcome.kind = "setsockopt_raises"    \* lines 276-277 stand before the try of line 283
      THEN Effects(FailureResult("Network error", mac_address), <<>>, -1, 0, TRUE, FALSE)
      ELSE IF outcome.kind = "sendto_timeout"
      THEN Effects(FailureResult("Network timeout", mac_address),
                   sendto_calls(datagram, FALSE), -1, 0, TRUE, TRUE)
      ELSE IF outcome.kind = "sendto_raises"
      THEN Effects(FailureResult("Network error", mac_address),
                   sendto_calls(datagram, FALSE), -1, 0, TRUE, TRUE)
      ELSE IF sendto_complete(outcome.bytes_sent, magic_packet.bytes)
      THEN Effects(SuccessResult(mac_address, target_ip, broadcast_ip, wol_port, outcome.bytes_sent),
                   sendto_calls(datagram, TRUE), outcome.bytes_sent, 1, TRUE, TRUE)
      ELSE Effects(FailureResult("Incomplete packet transmission", mac_address),
                   sendto_calls(datagram, FALSE), outcome.bytes_sent, 0, TRUE, TRUE)

(***************************************************************************)
(* The HTTP layer: WoLHandler                                              *)
(***************************************************************************)
\* a key the JSON object, or the header set, does not hold
Absent == [type |-> "absent", chars |-> <<>>, num |-> 0]

\* dict.get(key, default) and headers.get(key, default)
get(value, default) == IF value = Absent THEN default ELSE value

\* a JSON object with the keys mac, ip and name (Absent: key not present)
JsonObject(mac, ip, name) ==
  [type |-> "dict", chars |-> <<>>,
   num |-> Cardinality({k \in {<<"mac", mac>>, <<"ip", ip>>, <<"name", name>>} : k[2] # Absent}),
   mac |-> mac, ip |-> ip, name |-> name]

\* a JSON value that is not an object
JsonValue(value) ==
  [type |-> value.type, chars |-> value.chars, num |-> value.num,
   mac |-> Absent, ip |-> Absent, name |-> Absent]

\* the bytes of the body: text json.loads parses to value, text it rejects
\* (JSONDecodeError), or bytes that are not UTF-8 (UnicodeDecodeError)
Body(kind, value) == [kind |-> kind, value |-> value]

\* api_key is the X-API-Key header, which only the Flask server reads
Request(method, path, content_type, content_length, body) ==
  [method |-> method, path |-> path, content_type |-> content_type,
   content_length |-> content_length, body |-> body, api_key |-> Absent]

APPLICATION_JSON == <<"a", "p", "p", "l", "i", "c", "a", "t", "i", "o", "n", "/", "j", "s", "o", "n">>

UNKNOWN_DEVICE == Str(<<"U", "n", "k", "n", "o", "w", "n", " ", "D", "e", "v", "i", "c", "e">>)

RECURSIVE decimal_digits(_)
decimal_digits(n) ==
  IF n < 10 THEN <<digits[n + 1]>> ELSE decimal_digits(n \div 10) \o <<digits[(n % 10) + 1]>>

\* str(x)
py_str(x) ==
  CASE x.type = "str" -> x.chars
    [] x.type = "NoneType" -> <<"N", "o", "n", "e">>
    [] x.type = "int" -> IF x.num < 0 THEN <<"-">> \o decimal_digits(0 - x.num) ELSE decimal_digits(x.num)
    [] x.type = "bool" -> IF x.num # 0 THEN <<"T", "r", "u", "e">> ELSE <<"F", "a", "l", "s", "e">>
    [] x.type = "list" -> <<"[", "]">>
    [] OTHER -> <<"{", "}">>

\* the counters as an answer other than the health check's shows them
NoHealth ==
  [requests_handled |-> -1, magic_packets_sent |-> -1, validation_errors |-> -1,
   security_violations |-> -1]

\* the JSON body every answer carries; fields an answer does not hold keep
\* their Absent or empty value
Response(status_code, message) ==
  [status_code |-> status_code, message |-> message, has_timestamp |-> TRUE,
   target_ip |-> Absent, target_mac |-> Absent, target_name |-> Absent,
   broadcast_ip |-> <<>>, packet_size |-> 0, health |-> NoHealth, details |-> "",
   method |-> ""]

\* send_error_response(status_code, message)
send_error_response(status_code, message) == Response(status_code, message)

\* int(self.headers.get('Content-Length', 0)), 0 on ValueError (lines 386-389)
content_length_of(request) ==
  LET header == get(request.content_length, IntValue(0))
  IN  IF header.type = "int" THEN header.num
      ELSE LET parsed == py_int(header.chars)
           IN  IF parsed.ok THEN parsed.value ELSE 0

\* a size test that lets every declared length through
request_size_unchecked(content_length) == FALSE

\* content_length > MAX_REQUEST_SIZE (line 391)
request_too_large(content_length) == content_length > MAX_REQUEST_SIZE

\* a name test that lets every name through
name_length_unchecked(device_name) == FALSE

\* len(str(device_name)) > 100 (line 439)
name_too_long(device_name) == Len(py_str(device_name)) > MAX_NAME_LENGTH

\* what a handler has decided so far: the counters it still has to
\* increment, in order; whether the body was read; whether the request
\* goes on to send_magic_packet; otherwise the answer
Decision(increments, body_read, proceeds, response) ==
  [increments |-> increments, body_read |-> body_read, proceeds |-> proceeds,
   response |-> response]

\* a validator that counts each violation twice
violations_counted_twice(n) == Repeat(<<"security_violations">>, 2 * n)

\* n increments of security_violations, made inside a validator
violations_counted(n) == Repeat(<<"security_violations">>, n)

\* handle_wake_request from its first line to the call of send_magic_packet
\* (lines 378-441)
handle_wake_request(request) ==
  LET content_type == get(request.content_type, Str(<<>>))
      content_length == content_length_of(request)
      request_data == request.body.value
      mac_address == get(request_data.mac, None)
      target_ip == get(request_data.ip, None)
      device_name == get(request_data.name, UNKNOWN_DEVICE)
      mac_verdict == validate_mac(mac_address)
      ip_verdict == validate_ip(target_ip)
  IN  IF ~startswith(content_type.chars, APPLICATION_JSON)
      THEN Decision(<<>>, FALSE, FALSE,
                    send_error_response(400, "Content-Type must be application/json"))
      ELSE IF request_too_large(content_length)
      THEN Decision(<<"security_violations">>, FALSE, FALSE,
                    send_error_response(413, "Request too large"))
      ELSE IF content_length <= 0
      THEN Decision(<<>>, FALSE, FALSE, send_error_response(400, "Empty request body"))
      ELSE IF request.body.kind # "json"
      THEN Decision(<<"validation_errors">>, TRUE, FALSE,
                    send_error_response(400, "Invalid JSON format"))
      ELSE IF request_data.type # "dict"
      THEN Decision(<<>>, TRUE, FALSE, send_error_response(400, "Request must be a JSON object"))
      ELSE IF ~truthy(mac_address)
      THEN Decision(<<>>, TRUE, FALSE, send_error_response(400, "Missing required field: 'mac'"))
      ELSE IF ~mac_verdict.ok
      THEN Decision(violations_counted(mac_verdict.violations) \o <<"validation_errors">>, TRUE, FALSE,
                    send_error_response(400, "Invalid MAC address format"))
      ELSE IF truthy(target_ip) /\ ~ip_verdict.ok
      THEN Decision(violations_counted(ip_verdict.violations) \o <<"validation_errors">>, TRUE, FALSE,
                    send_error_response(400, "Invalid IP address format"))
      ELSE IF name_too_long(device_name)
      THEN Decision(<<>>, TRUE, FALSE,
                    send_error_response(400, "Device name too long (max 100 characters)"))
      ELSE Decision(<<>>, TRUE, TRUE, Response(0, ""))

\* an answer of 200 whatever send_magic_packet reported
wake_response_always_success(result, target_ip, device_name) ==
  [Response(200, "Magic packet sent successfully") EXCEPT
     !.target_ip = target_ip, !.target_mac = result.mac, !.target_name = device_name,
     !.broadcast_ip = result.broadcast_ip, !.packet_size = result.packet_size]

\* the answer built from the result of send_magic_packet (lines 449-466)
wake_response(result, target_ip, device_name) ==
  IF result.success
  THEN [Response(200, "Magic packet sent successfully") EXCEPT
          !.target_ip = target_ip, !.target_mac = result.mac, !.target_name = device_name,
          !.broadcast_ip = result.broadcast_ip, !.packet_size = result.packet_size]
  ELSE send_error_response(500, "Failed to send magic packet")

\* do_GET and do_POST after their increment of requests_handled: the path
\* decides (lines 339-345 and 351-357)
route(request) ==
  IF request.method = "GET"
  THEN IF request.path = "/health"
       THEN Decision(<<>>, FALSE, FALSE, Response(200, "healthy"))
       ELSE Decision(<<>>, FALSE, FALSE, send_error_response(404, "Endpoint not found"))
  ELSE IF request.path = "/wake"
       THEN handle_wake_request(request)
       ELSE Decision(<<>>, FALSE, FALSE, send_error_response(404, "Endpoint not found"))

(***************************************************************************)
(* The arguments the operations are applied to                             *)
(***************************************************************************)
\* "A" * 1000, the oversized argument of the test suite
REPEATED_LENGTH == 1000

HexSample == {"0", "1", "A", "F"}

\* twelve hex digits: k times one digit, then 12 - k times another
MacDigitStrings ==
  { Repeat(<<d1>>, k) \o Repeat(<<d2>>, 12 - k) : d1 \in HexSample, d2 \in HexSample, k \in 1..12 }

\* AABBCCDDEEFF, AA:BB:CC:DD:EE:FF or AA-BB-CC-DD-EE-FF
format_mac(ds, sep) ==
  IF sep = "" THEN ds
  ELSE [i \in 1..17 |-> IF i % 3 = 0 THEN sep ELSE ds[i - (i \div 3)]]

alternate_case(s) ==
  [i \in 1..Len(s) |-> IF i % 2 = 0 THEN upper_char(s[i]) ELSE lower_char(s[i])]

letter_case(s, style) ==
  CASE style = "upper" -> upper(s)
    [] style = "lower" -> lower(s)
    [] OTHER -> alternate_case(s)

SeparatorStyles == {"", ":", "-"}

CaseStyles == {"upper", "lower", "alternate"}

Paddings == {<<>>, <<" ", " ">>}

StyledMacs ==
  { pad \o letter_case(format_mac(ds, sep), style) \o pad :
      ds \in MacDigitStrings \cup {<<"0","0","1","B","6","3","8","4","4","5","E","6">>},
      sep \in SeparatorStyles, style \in CaseStyles, pad \in Paddings }

WellFormedMacSample == <<"A","A",":","B","B",":","C","C",":","D","D",":","E","E",":","F","F">>

ExplicitMacs ==
  { <<"A","A",":","B","B","-","C","C",":","D","D",":","E","E",":","F","F">>,
    <<"A","A",":","B","B",":","C","C",":","D","D",":","E","E">>,
    <<"A","A",":","B","B",":","C","C",":","D","D",":","E","E",":","F","F",":","G","G">>,
    <<"G","G",":","H","H",":","I","I",":","J","J",":","K","K",":","L","L">>,
    <<"A","A",":","B","B",":","C","C",":","D","D",":","E","E",":","F">>,
    <<"A","A","B","B","C","C","D","D","E","E","F","F","F">>,
    <<"A",":","A","B","B","C","C","D","D","E","E","F","F">>,
    <<"A","A"," ","B","B"," ","C","C"," ","D","D"," ","E","E"," ","F","F">>,
    <<"\t","A","A","B","B","C","C","D","D","E","E","F","F","\r","\n">>,
    <<"A","A",":","B","B",":","C","C",":","D","D",":","E","E",":","F","F","'",";"," ","D","R","O","P"," ","T","A","B","L","E",";">>,
    <<"n","o","t","-","a","-","m","a","c">> }

DROP_TABLE == <<"'",";"," ","D","R","O","P"," ","T","A","B","L","E">>

SCRIPT_TAG == <<"<","s","c","r","i","p","t",">">>

ETC_PASSWD == <<".",".","/",".",".","/",".",".","/","e","t","c","/","p","a","s","s","w","d">>

Fragments ==
  { <<"A","A",":","B","B",":","C","C",":","D","D",":","E","E",":","F","F">>,
    <<"a","a","b","b","c","c","d","d","e","e","f","f">>,
    DROP_TABLE,
    SCRIPT_TAG,
    ETC_PASSWD,
    <<" ">>,
    <<"\n">>,
    <<":">>,
    <<"-">>,
    <<"x">>,
    <<"1",".","2",".","3",".","4">>,
    <<"E","V","A","L","(">> }

\* up to three fragments, one after the other
FragmentStrings ==
  { a \o b \o c : a \in Fragments \cup {<<>>}, b \in Fragments \cup {<<>>}, c \in Fragments }

RepeatedStrings ==
  { Repeat(<<c>>, n) : c \in {"A", "1", " ", "<"}, n \in {1, 12, 15, 16, 50, 51, REPEATED_LENGTH} }

IpPartSample ==
  { <<"0">>,
    <<"1">>,
    <<"1","0">>,
    <<"0","1">>,
    <<"0","0">>,
    <<"1","2","7">>,
    <<"1","9","2">>,
    <<"2","5","5">>,
    <<"2","5","6">>,
    <<"-","1">>,
    <<"-","0">>,
    <<"+","4">>,
    <<"+","1","2","7">>,
    <<" ","1">>,
    <<"1","_","0">>,
    <<>>,
    <<"a">> }

IpMiddleSample ==
  { <<"0">>,
    <<"1">>,
    <<"2","5","5">> }

DottedQuads ==
  { p1 \o <<".">> \o p2 \o <<".">> \o p3 \o <<".">> \o p4 :
      p1 \in IpPartSample, p2 \in IpMiddleSample, p3 \in IpMiddleSample, p4 \in IpPartSample }

ExplicitIps ==
  { <<"1","9","2",".","1","6","8",".","1",".","1","0","0">>,
    <<"1","9","2",".","1","6","8",".","0","1",".","1">>,
    <<"1","9","2",".","1","6","8",".","1">>,
    <<"1","9","2",".","1","6","8",".","1",".","1",".","1">>,
    <<"a","b","c",".","d","e","f",".","g","h","i",".","j","k","l">>,
    <<"1",".","2",".","3",".","\r","4">>,
    <<"1",".","2",".","3",".","4","&">>,
    <<"1",".","2",".","3",".","4"," ">>,
    <<"\t","1","9","2",".","1","6","8",".","1",".","1","\n">>,
    <<"2","5","5",".","2","5","5",".","2","5","5",".","+","2","5","5">>,
    <<"1","0",".","2","5","5",".","2","5","5",".","2","5","4">> }

Texts ==
  {<<>>} \cup StyledMacs \cup ExplicitMacs \cup FragmentStrings \cup RepeatedStrings
         \cup DottedQuads \cup ExplicitIps

NonTexts ==
  { None, IntValue(123), IntValue(0), BoolValue(1), BoolValue(0), EmptyList, EmptyDict }

Inputs == { Str(chars) : chars \in Texts } \cup NonTexts

(***************************************************************************)
(* The Flask server of wol-server/app.py.  The texts of its answers are    *)
(* written without their accents.                                          *)
(***************************************************************************)
APP_BROADCAST == <<"1", "9", "2", ".", "1", "6", "8", ".", "3", ".", "2", "5", "5">>

APP_PORTS == <<9, 7>>

\* is_valid_mac(mac_address); raised: mac_address.upper() raises
\* AttributeError for a value that is not a str
is_valid_mac(mac_address) ==
  IF ~truthy(mac_address) THEN [ok |-> FALSE, raised |-> FALSE]
  ELSE IF ~isinstance_str(mac_address) THEN [ok |-> FALSE, raised |-> TRUE]
  ELSE LET clean_mac == re_sub_separators(upper(mac_address.chars))
       IN  [ok |-> Len(clean_mac) = 12 /\ \A i \in 1..Len(clean_mac) : clean_mac[i] \in hex_chars,
            raised |-> FALSE]

\* format_mac of app.py: AA:BB:CC:DD:EE:FF
app_format_mac(mac_address) == format_mac(re_sub_separators(upper(mac_address.chars)), ":")

\* What subprocess.run(['wakeonlan', ...]) does:
\*   exit        the command ran and exited with returncode
\*   not_found   FileNotFoundError
\*   timeout     subprocess.TimeoutExpired, a SubprocessError
\*   os_error    another OSError, such as PermissionError
\* text is str(e) of the exception raised
CommandOutcome(kind, returncode, text) == [kind |-> kind, returncode |-> returncode, text |-> text]

NoCommand == CommandOutcome("none", 0, "")

CommandOutcomes ==
  { CommandOutcome("exit", 0, ""), CommandOutcome("exit", 1, ""),
    CommandOutcome("not_found", 0, "[Errno 2] No such file or directory: 'wakeonlan'"),
    CommandOutcome("timeout", 0, "Command '['wakeonlan', '-i', '192.168.3.255']' timed out after 10 seconds"),
    CommandOutcome("os_error", 0, "[Errno 13] Permission denied: 'wakeonlan'") }

\* what the socket calls of send_magic_packet_python do: whether socket()
\* raises, whether setsockopt() raises on the socket made, and one outcome
\* of sendto for each port
SocketCalls(socket_raises, setsockopt_raises, ports) ==
  [socket_raises |-> socket_raises, setsockopt_raises |-> setsockopt_raises, ports |-> ports]

NoSockets == SocketCalls(FALSE, FALSE, <<>>)

PortOutcomes ==
  { SocketOutcome("sendto_returns", PACKET_SIZE, ""), SocketOutcome("sendto_returns", 51, ""),
    SocketOutcome("sendto_raises", 0, "[Errno 101] Network is unreachable") }

\* both ports alike, or the first port failing and the second not
SocketCallOutcomes ==
  { SocketCalls(TRUE, FALSE, <<>>), SocketCalls(FALSE, TRUE, <<>>) } \cup
  { SocketCalls(FALSE, FALSE, ports) :
      ports \in { <<first, second>> : first \in PortOutcomes,
                                      second \in { o \in PortOutcomes : o.bytes_sent = PACKET_SIZE } }
              \cup { <<both, both>> : both \in PortOutcomes } }

\* send_magic_packet_python(mac_address, target_ip): the datagrams handed to
\* sendto and the boolean returned
\* the packet of send_magic_packet_python (lines 158-161): ok is FALSE when
\* bytes.fromhex raises
python_magic_packet(mac_address) ==
  LET mac_bytes == bytes_fromhex(SelectSeq(mac_address, LAMBDA c : c # ":"))
  IN  [ok |-> mac_bytes.ok,
       bytes |-> IF mac_bytes.ok THEN Repeat(<<255>>, 6) \o Repeat(mac_bytes.bytes, 16) ELSE <<>>]

\* one pass of the loop of lines 174-180: sendto within its own try;
\* counted: success_count += 1; raised: an exception leaves the loop
sendto_port(magic_packet, port, outcome) ==
  [counted |-> outcome.kind = "sendto_returns" /\ outcome.bytes_sent = Len(magic_packet),
   raised |-> FALSE,
   datagram |-> [address |-> [ip |-> APP_BROADCAST, port |-> port], size |-> Len(magic_packet)]]

\* for port in ports (lines 174-180), from the i-th port on
RECURSIVE send_to_ports(_, _, _)
send_to_ports(magic_packet, outcomes, i) ==
  IF i > Len(APP_PORTS)
  THEN [success_count |-> 0, datagrams |-> <<>>, raised |-> FALSE]
  ELSE LET attempt == sendto_port(magic_packet, APP_PORTS[i], outcomes[i])
           rest == send_to_ports(magic_packet, outcomes, i + 1)
       IN  IF attempt.raised
           THEN [success_count |-> 0, datagrams |-> <<attempt.datagram>>, raised |-> TRUE]
           ELSE [success_count |-> (IF attempt.counted THEN 1 ELSE 0) + rest.success_count,
                 datagrams |-> <<attempt.datagram>> \o rest.datagrams,
                 raised |-> rest.raised]

\* send_magic_packet_python(mac_address, target_ip): the datagrams handed to
\* sendto, the boolean returned, whether a socket was made (opened) and
\* whether sock.close() of line 182 ran (closed)
send_magic_packet_python(mac_address, target_ip, sockets) ==
  LET mac_bytes == python_magic_packet(mac_address)
      magic_packet == mac_bytes.bytes
      loop == send_to_ports(magic_packet, sockets.ports, 1)
      Returned(success, datagrams, opened, closed) ==
        [success |-> success, datagrams |-> datagrams, opened |-> opened, closed |-> closed]
  IN  IF ~mac_bytes.ok \/ sockets.socket_raises
      THEN Returned(FALSE, <<>>, FALSE, FALSE)
      ELSE IF sockets.setsockopt_raises
      THEN Returned(FALSE, <<>>, TRUE, FALSE)
      ELSE IF loop.raised
      THEN Returned(FALSE, loop.datagrams, TRUE, FALSE)
      ELSE Returned(loop.success_count > 0, loop.datagrams, TRUE, TRUE)

AppFailure(error, mac_address) ==
  [success |-> FALSE, error |-> error, mac |-> mac_address, method |-> "",
   target_ip |-> None, broadcast |-> <<>>]

AppSuccess(method, formatted_mac, target_ip) ==
  [success |-> TRUE, error |-> "", mac |-> Str(formatted_mac), method |-> method,
   target_ip |-> target_ip, broadcast |-> APP_BROADCAST]

PYTHON_FAILED == "Fallo implementacion Python"

\* send_magic_packet of app.py (lines 92-150): the result dict, the
\* wakeonlan command run, if any, whether send_magic_packet_python was
\* called (line 130) and the datagrams it sent.  The except clause of line
\* 126 catches SubprocessError and FileNotFoundError; another OSError goes
\* to the except clause of line 144.
app_send_magic_packet(mac_address, target_ip, command, sockets) ==
  LET formatted_mac == app_format_mac(mac_address)
      cmd == <<"wakeonlan", "-i", APP_BROADCAST, formatted_mac>>
      fallback == send_magic_packet_python(formatted_mac, target_ip, sockets)
  IN  IF command.kind = "exit" /\ command.returncode = 0
      THEN [result |-> AppSuccess("wakeonlan", formatted_mac, target_ip), cmd |-> cmd,
            python_called |-> FALSE, datagrams |-> <<>>]
      ELSE IF command.kind = "os_error"
      THEN [result |-> AppFailure(command.text, mac_address), cmd |-> cmd,
            python_called |-> FALSE, datagrams |-> <<>>]
      ELSE IF fallback.success
      THEN [result |-> AppSuccess("python", formatted_mac, target_ip), cmd |-> cmd,
            python_called |-> TRUE, datagrams |-> fallback.datagrams]
      ELSE [result |-> AppFailure(PYTHON_FAILED, mac_address), cmd |-> cmd,
            python_called |-> TRUE, datagrams |-> fallback.datagrams]

\* request.is_json: the media type, without its parameters, is
\* application/json
is_json(request) ==
  LET content_type == get(request.content_type, Str(<<>>))
  IN  lower(strip(split(content_type.chars, ";")[1])) = APPLICATION_JSON

\* a check that lets every request through
api_key_unchecked(request, env) == TRUE

\* the check of require_api_key (lines 62-67): TRUE when the request is let
\* through
api_key_accepted(request, env) ==
  \/ ~(truthy(env.api_key) /\ strip(env.api_key.chars) # <<>>)
  \/ /\ request.api_key # Absent
     /\ truthy(request.api_key)
     /\ request.api_key = env.api_key

\* handler_ran: the function behind require_api_key was called (line 68)
AppAnswer(response, effects) ==
  [response |-> response, cmd |-> effects.cmd, datagrams |-> effects.datagrams,
   result |-> effects.result, python_called |-> effects.python_called,
   handler_ran |-> response.status_code # 401]

NoAppEffects ==
  [result |-> AppFailure("", None), cmd |-> <<>>, python_called |-> FALSE, datagrams |-> <<>>]

\* wake_on_lan behind require_api_key (lines 201-263)
wake_on_lan(request, env, command, sockets) ==
  LET data == request.body.value
      mac_address == data.mac
      target_ip == get(data.ip, None)
      valid == is_valid_mac(mac_address)
      effects == app_send_magic_packet(mac_address, target_ip, command, sockets)
  IN  IF ~api_key_accepted(request, env)
      THEN AppAnswer(Response(401, "API Key requerida o invalida"), NoAppEffects)
      ELSE IF ~is_json(request)
      THEN AppAnswer(Response(400, "Content-Type debe ser application/json"), NoAppEffects)
      ELSE IF request.body.kind # "json"
      THEN AppAnswer(Response(500, "Error interno del servidor"), NoAppEffects)
      ELSE IF ~truthy(data) \/ data.mac = Absent
      THEN AppAnswer(Response(400, "Campo mac es requerido"), NoAppEffects)
      ELSE IF valid.raised
      THEN AppAnswer(Response(500, "Error interno del servidor"), NoAppEffects)
      ELSE IF ~valid.ok
      THEN AppAnswer(Response(400, "Formato de MAC address invalido"), NoAppEffects)
      ELSE IF effects.result.success
      THEN AppAnswer([Response(200, "sent") EXCEPT
                        !.target_mac = effects.result.mac,
                        !.broadcast_ip = effects.result.broadcast,
                        !.method = effects.result.method,
                        !.target_ip = IF truthy(target_ip) THEN target_ip ELSE Absent],
                     effects)
      ELSE AppAnswer([Response(500, "Error enviando Magic Packet") EXCEPT
                        !.details = effects.result.error],
                     effects)

\* server_status behind require_api_key (lines 265-277)
server_status(request, env) ==
  IF ~api_key_accepted(request, env)
  THEN AppAnswer(Response(401, "API Key requerida o invalida"), NoAppEffects)
  ELSE AppAnswer(Response(200, "running"), NoAppEffects)

\* health_check (lines 191-199), which no decorator guards
health_check(request, env) == AppAnswer(Response(200, "ok"), NoAppEffects)

(***************************************************************************)
(* The forwarder of docker/wol_forwarder.py                                *)
(***************************************************************************)
LOCAL_BROADCAST == <<"1", "9", "2", ".", "1", "6", "8", ".", "3", ".", "2", "5", "5">>

GLOBAL_BROADCAST == <<"2", "5", "5", ".", "2", "5", "5", ".", "2", "5", "5", ".", "2", "5", "5">>

\* target_ip of forward_wol_packet (line 141)
FORWARD_TARGET_IP == <<"1", "9", "2", ".", "1", "6", "8", ".", "3", ".", "9", "0">>

\* the sends of forward_wol_packet in the order of lines 131-149
ForwardAddresses ==
  << [ip |-> GLOBAL_BROADCAST, port |-> 9], [ip |-> LOCAL_BROADCAST, port |-> 9],
     [ip |-> FORWARD_TARGET_IP, port |-> 9], [ip |-> GLOBAL_BROADCAST, port |-> 7],
     [ip |-> LOCAL_BROADCAST, port |-> 7], [ip |-> FORWARD_TARGET_IP, port |-> 7] >>

\* f'{b:02x}': two lower-case hex digits
format_02x(b) == <<lower_char(hexdigits[(b \div 16) + 1]), lower_char(hexdigits[(b % 16) + 1])>>

\* ':'.join([f'{b:02x}' for b in mac_bytes]) (line 76)
mac_str_of(mac_bytes) ==
  [i \in 1..(3 * Len(mac_bytes) - 1) |->
     IF i % 3 = 0 THEN ":" ELSE format_02x(mac_bytes[(i + 2) \div 3])[((i - 1) % 3) + 1]]

\* validate_magic_packet(data) (lines 56-77) with a loop that compares no
\* block
validate_magic_packet_size_and_header(data) ==
  IF Len(data) # 102
  THEN [is_valid |-> FALSE, mac_str |-> <<>>]
  ELSE IF SubSeq(data, 1, 6) # Repeat(<<255>>, 6)
  THEN [is_valid |-> FALSE, mac_str |-> <<>>]
  ELSE [is_valid |-> TRUE, mac_str |-> mac_str_of(SubSeq(data, 7, 12))]

\* validate_magic_packet(data) (lines 56-77): the data are the bytes of a
\* datagram; mac_str is the second value returned for a valid packet
validate_magic_packet(data) ==
  IF Len(data) # 102
  THEN [is_valid |-> FALSE, mac_str |-> <<>>]
  ELSE IF SubSeq(data, 1, 6) # Repeat(<<255>>, 6)
  THEN [is_valid |-> FALSE, mac_str |-> <<>>]
  ELSE LET mac_bytes == SubSeq(data, 7, 12)
       IN  IF \E i \in 0..15 : SubSeq(data, 7 + i * 6, 12 + i * 6) # mac_bytes
           THEN [is_valid |-> FALSE, mac_str |-> <<>>]
           ELSE [is_valid |-> TRUE, mac_str |-> mac_str_of(mac_bytes)]

\* what one send did: the boolean returned, the calls of sendto, whether a
\* socket was made and closed, and whether an exception left the function
SendAttempt(ok, datagrams, opened, closed, raised) ==
  [ok |-> ok, datagrams |-> datagrams, opened |-> opened, closed |-> closed, raised |-> raised]

\* a send without the except clause of lines 100-102
send_wakeonlan_style_uncaught(magic_packet, target_ip, port, outcome) ==
  LET datagram == [address |-> [ip |-> target_ip, port |-> port], size |-> Len(magic_packet)]
  IN  IF outcome.kind = "socket_raises"
      THEN SendAttempt(FALSE, <<>>, FALSE, FALSE, TRUE)
      ELSE IF outcome.kind = "setsockopt_raises"
      THEN SendAttempt(FALSE, <<>>, TRUE, FALSE, TRUE)
      ELSE IF outcome.kind \in {"sendto_timeout", "sendto_raises"}
      THEN SendAttempt(FALSE, <<datagram>>, TRUE, FALSE, TRUE)
      ELSE SendAttempt(outcome.bytes_sent = Len(magic_packet), <<datagram>>, TRUE, TRUE, FALSE)

\* send_wakeonlan_style(magic_packet, target_ip, port, mac_address), the
\* socket calls behaving as outcome says (lines 79-102): sock.close() of
\* line 92 follows sendto within the try
send_wakeonlan_style(magic_packet, target_ip, port, outcome) ==
  LET datagram == [address |-> [ip |-> target_ip, port |-> port], size |-> Len(magic_packet)]
  IN  IF outcome.kind = "socket_raises"
      THEN SendAttempt(FALSE, <<>>, FALSE, FALSE, FALSE)
      ELSE IF outcome.kind = "setsockopt_raises"
      THEN SendAttempt(FALSE, <<>>, TRUE, FALSE, FALSE)
      ELSE IF outcome.kind \in {"sendto_timeout", "sendto_raises"}
      THEN SendAttempt(FALSE, <<datagram>>, TRUE, FALSE, FALSE)
      ELSE SendAttempt(outcome.bytes_sent = Len(magic_packet), <<datagram>>, TRUE, TRUE, FALSE)

\* forward_wol_packet(magic_packet, client_addr, mac_address) (lines 123-154):
\* the six calls of send_wakeonlan_style one after the other, an exception
\* that leaves one of them ending the function.  attempts are the calls
\* made, opened and closed count the sockets, and total_sent is returned and
\* added to stats['packets_forwarded']
forward_wol_packet(magic_packet, outcomes) ==
  LET send(i) == send_wakeonlan_style(magic_packet, ForwardAddresses[i].ip,
                                      ForwardAddresses[i].port, outcomes[i])
      sent == <<send(1), send(2), send(3), send(4), send(5), send(6)>>
      made == { i \in 1..Len(ForwardAddresses) : \A j \in 1..(i - 1) : ~sent[j].raised }
      calls == SubSeq(sent, 1, Cardinality(made))
      with_sendto == SelectSeq(calls, LAMBDA call : call.datagrams # <<>>)
  IN  [total_sent |-> Cardinality({ i \in made : sent[i].ok }),
       attempts |-> SubSeq(ForwardAddresses, 1, Cardinality(made)),
       datagrams |-> [i \in 1..Len(with_sendto) |-> with_sendto[i].datagrams[1]],
       opened |-> Cardinality({ i \in made : sent[i].opened }),
       closed |-> Cardinality({ i \in made : sent[i].closed }),
       raised |-> \E i \in made : sent[i].raised]

\* The threads of handle_client.  pc is the place of a thread:
\*   idle            no thread
\*   load_received   before the read of stats['packets_received'] (line 158)
\*   store_received  before the write of the value read plus one
\*   validate        before validate_magic_packet (line 163)
\*   forward         before the sends of forward_wol_packet (lines 131-151)
\*   load_forwarded  before the read of stats['packets_forwarded'] (line 153)
\*   store_forwarded before the write of the value read plus total_sent
\*   finished        handle_client has returned
\* sends counts the calls of send_wakeonlan_style, wrote holds the keys of
\* stats the thread has written
IdleThread ==
  [pc |-> "idle", data |-> <<>>, tmp |-> 0, is_valid |-> FALSE, mac_address |-> <<>>,
   sends |-> 0, total_sent |-> 0, wrote |-> {}]

Threads == 1..NumThreads

\* the forwarder after __init__ (lines 34-41); dispatched counts the
\* datagrams start_server has handed to a thread and sent the complete
\* sends of all threads
ForwarderAtStart ==
  [stats |-> [packets_received |-> 0, packets_forwarded |-> 0],
   threads |-> [t \in Threads |-> IdleThread],
   dispatched |-> 0, sent |-> 0]

(***************************************************************************)
(* The packet builders of the scripts: parse_mac_address and               *)
(* build_magic_packet of test_improved_wol.py (the same text stands in     *)
(* test_wol.py) and create_magic_packet of docker/test_wol_forwarder.py.   *)
(* ok is FALSE when the builder raises.                                    *)
(***************************************************************************)
\* mac_str.replace(':', '').replace('-', '').replace(' ', '').upper()
script_clean_mac(chars) == upper(SelectSeq(chars, LAMBDA c : c \notin {":", "-", " "}))

\* int(hex_byte, 16) of a text of two characters: two hex digits, or one
\* hex digit behind a sign or beside a blank that int strips
int_base16(hex_byte) ==
  IF is_hex(hex_byte[1]) /\ is_hex(hex_byte[2])
  THEN [ok |-> TRUE, value |-> 16 * hex_value(hex_byte[1]) + hex_value(hex_byte[2])]
  ELSE IF hex_byte[1] \in (whitespace \cup {"+"}) /\ is_hex(hex_byte[2])
  THEN [ok |-> TRUE, value |-> hex_value(hex_byte[2])]
  ELSE IF hex_byte[1] = "-" /\ is_hex(hex_byte[2])
  THEN [ok |-> TRUE, value |-> 0 - hex_value(hex_byte[2])]
  ELSE IF is_hex(hex_byte[1]) /\ hex_byte[2] \in whitespace
  THEN [ok |-> TRUE, value |-> hex_value(hex_byte[1])]
  ELSE [ok |-> FALSE, value |-> 0]

\* a parse that reads the two digits of a byte in the opposite order
parse_mac_address_swapped(chars) ==
  LET clean_mac == script_clean_mac(chars)
      byte_val == [i \in 1..6 |-> int_base16(<<clean_mac[2 * i], clean_mac[2 * i - 1]>>)]
  IN  IF Len(clean_mac) # 12 \/ \E i \in 1..6 : ~byte_val[i].ok \/ byte_val[i].value < 0
      THEN [ok |-> FALSE, bytes |-> <<>>]
      ELSE [ok |-> TRUE, bytes |-> [i \in 1..6 |-> byte_val[i].value]]

\* parse_mac_address(mac_str) (test_improved_wol.py lines 13-31); bytes()
\* raises ValueError for a negative value
parse_mac_address(chars) ==
  LET clean_mac == script_clean_mac(chars)
      byte_val == [i \in 1..6 |-> int_base16(SubSeq(clean_mac, 2 * i - 1, 2 * i))]
  IN  IF Len(clean_mac) # 12 \/ \E i \in 1..6 : ~byte_val[i].ok \/ byte_val[i].value < 0
      THEN [ok |-> FALSE, bytes |-> <<>>]
      ELSE [ok |-> TRUE, bytes |-> [i \in 1..6 |-> byte_val[i].value]]

\* build_magic_packet(mac_bytes) (test_improved_wol.py lines 33-44)
build_magic_packet(mac_bytes) ==
  IF Len(mac_bytes) # 6
  THEN [ok |-> FALSE, bytes |-> <<>>]
  ELSE [ok |-> TRUE, bytes |-> Repeat(<<255>>, 6) \o Repeat(mac_bytes, 16)]

\* build_magic_packet(parse_mac_address(mac_str)), as the scripts call them
script_magic_packet(chars) ==
  LET mac_bytes == parse_mac_address(chars)
  IN  IF mac_bytes.ok THEN build_magic_packet(mac_bytes.bytes) ELSE [ok |-> FALSE, bytes |-> <<>>]

\* create_magic_packet(mac_address) of docker/test_wol_forwarder.py (lines
\* 11-24)
forwarder_test_magic_packet(chars) ==
  LET mac == upper(SelectSeq(chars, LAMBDA c : c \notin {":", "-"}))
      mac_bytes == bytes_fromhex(mac)
  IN  IF Len(mac) # 12 \/ ~mac_bytes.ok
      THEN [ok |-> FALSE, bytes |-> <<>>]
      ELSE [ok |-> TRUE, bytes |-> Repeat(<<255>>, 6) \o Repeat(mac_bytes.bytes, 16)]

\* the builders of the repository applied to one argument; each of them
\* raises, or returns None, for a value that is not a str
PacketBuilders(mac_address) ==
  LET packet == create_magic_packet(mac_address)
      none == [ok |-> FALSE, bytes |-> <<>>]
  IN  [wol_server |-> [ok |-> ~packet.is_none, bytes |-> packet.bytes],
       app |-> IF isinstance_str(mac_address) THEN python_magic_packet(mac_address.chars) ELSE none,
       scripts |-> IF isinstance_str(mac_address) THEN script_magic_packet(mac_address.chars) ELSE none,
       forwarder_test |-> IF isinstance_str(mac_address)
                          THEN forwarder_test_magic_packet(mac_address.chars) ELSE none]

BuilderNames == {"wol_server", "app", "scripts", "forwarder_test"}

(***************************************************************************)
(* The requests the server receives                                        *)
(***************************************************************************)
JSON_WITH_CHARSET == Str(APPLICATION_JSON \o <<";", " ", "c", "h", "a", "r", "s", "e", "t", "=", "u", "t", "f", "-", "8">>)

ContentTypes == {Absent, Str(APPLICATION_JSON), JSON_WITH_CHARSET, Str(<<"t", "e", "x", "t", "/", "p", "l", "a", "i", "n">>)}

\* Content-Length headers: absent, not a number, not positive, within the
\* limit, at the limit, one above it and the 2000 bytes of the oversized
\* request
ContentLengths ==
  {Absent, Str(<<"a", "b", "c">>), Str(<<"0">>), Str(<<"-", "5">>), Str(<<"6", "0">>),
   Str(<<"1", "0", "2", "4">>), Str(<<"1", "0", "2", "5">>), Str(<<"2", "0", "0", "0">>)}

LOWER_DASHED_MAC == <<"a", "a", "-", "b", "b", "-", "c", "c", "-", "d", "d", "-", "e", "e", "-", "0", "1">>

RequestMacs ==
  {Absent, None, Str(<<>>), IntValue(123), Str(WellFormedMacSample), Str(LOWER_DASHED_MAC),
   Str(<<"A", "A", ":", "B", "B", ":", "C", "C">>), Str(DROP_TABLE), Str(Repeat(<<"A">>, MAX_MAC_LENGTH + 1))}

ValidRequestMacs == {Str(WellFormedMacSample), Str(LOWER_DASHED_MAC)}

DEVICE_IP == <<"1", "9", "2", ".", "1", "6", "8", ".", "1", ".", "5", "0">>

RequestIps ==
  {Absent, None, Str(<<>>), IntValue(0), IntValue(5), Str(DEVICE_IP), Str(<<"1", "0", ".", "0", ".", "0", ".", "7">>),
   Str(<<"2", "5", "6", ".", "1", ".", "1", ".", "1">>), Str(<<"1", "2", "7", ".", "0", ".", "0", ".", "1">>), Str(SCRIPT_TAG)}

RequestNames ==
  {Absent, None, IntValue(7), Str(<<"P", "C">>), Str(Repeat(<<"N">>, MAX_NAME_LENGTH)),
   Str(Repeat(<<"N">>, MAX_NAME_LENGTH + 1))}

\* bodies that vary one field at a time, and bodies with several fields
\* wrong at once
WakeObjects ==
  { JsonObject(mac, Absent, Absent) : mac \in RequestMacs } \cup
  { JsonObject(Str(WellFormedMacSample), ip, Absent) : ip \in RequestIps } \cup
  { JsonObject(Str(WellFormedMacSample), Absent, name) : name \in RequestNames } \cup
  { JsonObject(mac, Str(DEVICE_IP), Str(<<"P", "C">>)) : mac \in ValidRequestMacs } \cup
  { JsonObject(mac, ip, Str(Repeat(<<"N">>, MAX_NAME_LENGTH + 1))) :
      mac \in {Str(WellFormedMacSample), Str(DROP_TABLE)},
      ip \in {Str(<<>>), Str(DEVICE_IP), Str(SCRIPT_TAG)} }

OtherBodies ==
  { Body("malformed", JsonValue(None)), Body("undecodable", JsonValue(None)) } \cup
  { Body("json", JsonValue(v)) : v \in {None, EmptyList, IntValue(1), Str(WellFormedMacSample)} }

WakeRequest(content_type, content_length, body) ==
  Request("POST", "/wake", content_type, content_length, body)

Requests ==
  { Request("GET", path, Absent, Absent, Body("none", JsonValue(None))) :
      path \in {"/health", "/wake", "/"} } \cup
  { Request("POST", path, Str(APPLICATION_JSON), Str(<<"6", "0">>),
            Body("json", JsonObject(Str(WellFormedMacSample), Absent, Absent))) :
      path \in {"/health", "/"} } \cup
  { WakeRequest(content_type, content_length,
                Body("json", JsonObject(Str(WellFormedMacSample), Absent, Absent))) :
      content_type \in ContentTypes, content_length \in ContentLengths } \cup
  { WakeRequest(content_type, Str(<<"2", "0", "0", "0">>),
                Body("json", JsonObject(Str(DROP_TABLE), Absent, Absent))) :
      content_type \in ContentTypes } \cup
  { WakeRequest(Str(APPLICATION_JSON), Str(<<"6", "0">>), body) : body \in OtherBodies } \cup
  { WakeRequest(Str(APPLICATION_JSON), Str(<<"6", "0">>), Body("json", object)) :
      object \in WakeObjects }

(***************************************************************************)
(* The state of the server                                                 *)
(***************************************************************************)
Connections == 1..NumConnections

CounterNames == {"requests_handled", "magic_packets_sent", "validation_errors", "security_violations"}

ZeroStats ==
  [requests_handled |-> 0, magic_packets_sent |-> 0, validation_errors |-> 0,
   security_violations |-> 0]

\* the requests answered so far: how many, and for each counter how many
\* of them took the path that counts on it
NoneCompleted == [count |-> 0, paths |-> ZeroStats]

NoRequest == Request("", "", Absent, Absent, Body("none", JsonValue(None)))

NoOutcome == SocketOutcome("none", 0, "")

\* One connection and its handler.  pc is the handler's position:
\*   idle     no connection
\*   pending  connected, the server has not yet taken the request
\*   load     about to read the counter Head(todo)
\*   store    about to write tmp + 1 to the counter Head(todo)
\*   send     about to call send_magic_packet
\*   respond  about to write the answer
\*   done     answered
\* todo holds the counters still to increment, incremented those done;
\* datagrams are the calls of sendto, returned what sendto returned.
IdleHandler ==
  [pc |-> "idle", request |-> NoRequest, todo |-> <<>>, tmp |-> 0, proceeds |-> FALSE,
   body_read |-> FALSE, built |-> FALSE, outcome |-> NoOutcome, datagrams |-> <<>>,
   returned |-> -1, error |-> "", incremented |-> ZeroStats, response |-> Response(0, ""),
   wakeonlan |-> NoCommand, sockets |-> NoSockets]

Running(h) == handlers[h].pc \in {"load", "store", "send", "respond"}

(***************************************************************************)
(* State machine: the operations applied to an argument                    *)
(***************************************************************************)
\* what the last call did: the operation, what it returned, and
\* security_violations as it was before the call
NoCall ==
  [op |-> "none", ok |-> FALSE, step |-> "none", is_none |-> TRUE, bytes |-> <<>>,
   raised |-> FALSE, violations_before |-> 0, packets_before |-> 0,
   outcome |-> NoOutcome, datagrams |-> <<>>, result |-> FailureResult("", None),
   outcomes |-> <<>>, sockets |-> NoSockets, attempts |-> <<>>, total_sent |-> 0,
   opened |-> 0, closed |-> 0,
   packets |-> [builder \in BuilderNames |-> [ok |-> FALSE, bytes |-> <<>>]]]

\* the server side at process start: WOL_BROADCAST_IP not set, no connection
ServerAtStart ==
  /\ environ = Environment(None, Str(<<>>))
  /\ handlers = [h \in Connections |-> IdleHandler]
  /\ completed = NoneCompleted
  /\ forwarder = ForwarderAtStart

server_vars == <<environ, handlers, completed>>

Init ==
  /\ input \in Inputs
  /\ server_stats = ZeroStats
  /\ last = NoCall
  /\ ServerAtStart

\* a validate_mac whose answer depends on the counters: it refuses everything
\* once a security violation has been counted
CallValidateMacLockout ==
  /\ server_stats.security_violations < MaxViolations
  /\ LET verdict == validate_mac(input)
         locked == server_stats.security_violations > 0
     IN  /\ server_stats' = [server_stats EXCEPT !.security_violations = @ + verdict.violations]
         /\ last' = [NoCall EXCEPT !.op = "validate_mac", !.ok = verdict.ok /\ ~locked,
                                   !.step = verdict.step,
                                   !.violations_before = server_stats.security_violations]
  /\ UNCHANGED <<forwarder, input, server_vars>>

CallValidateMac ==
  /\ server_stats.security_violations < MaxViolations
  /\ LET verdict == validate_mac(input)
     IN  /\ server_stats' = [server_stats EXCEPT !.security_violations = @ + verdict.violations]
         /\ last' = [NoCall EXCEPT !.op = "validate_mac", !.ok = verdict.ok, !.step = verdict.step,
                                   !.violations_before = server_stats.security_violations]
  /\ UNCHANGED <<forwarder, input, server_vars>>

CallValidateIp ==
  /\ server_stats.security_violations < MaxViolations
  /\ LET verdict == validate_ip(input)
     IN  /\ server_stats' = [server_stats EXCEPT !.security_violations = @ + verdict.violations]
         /\ last' = [NoCall EXCEPT !.op = "validate_ip", !.ok = verdict.ok, !.step = verdict.step,
                                   !.violations_before = server_stats.security_violations]
  /\ UNCHANGED <<forwarder, input, server_vars>>

CallCreateMagicPacket ==
  /\ server_stats.security_violations < MaxViolations
  /\ LET verdict == validate_mac(input)
         packet == create_magic_packet(input)
     IN  /\ server_stats' = [server_stats EXCEPT !.security_violations = @ + verdict.violations]
         /\ last' = [NoCall EXCEPT !.op = "create_magic_packet", !.ok = verdict.ok,
                                   !.step = verdict.step, !.is_none = packet.is_none,
                                   !.bytes = packet.bytes, !.raised = packet.raised,
                                   !.violations_before = server_stats.security_violations]
  /\ UNCHANGED <<forwarder, input, server_vars>>

Next ==
  \/ CallValidateMac
  \/ CallValidateIp
  \/ CallCreateMagicPacket

Spec == Init /\ [][Next]_vars

(***************************************************************************)
(* Repeated calls: the validators are called again on the same argument    *)
(* while calls on other arguments move the counters in between             *)
(***************************************************************************)
RepeatInputs == { Str(chars) : chars \in ExplicitMacs \cup ExplicitIps \cup Fragments } \cup NonTexts

\* arguments of the calls made in between
OtherArguments ==
  { Str(DROP_TABLE), Str(WellFormedMacSample), Str(Repeat(<<"1">>, 16)) }

InitRepeat ==
  /\ input \in RepeatInputs
  /\ server_stats = ZeroStats
  /\ last = NoCall
  /\ ServerAtStart

\* validate_mac or validate_ip called on another argument; only its effect
\* on the counters is kept
CallOnOtherArgument ==
  /\ server_stats.security_violations < MaxViolations
  /\ \E other \in OtherArguments : \E verdict \in {validate_mac(other), validate_ip(other)} :
       server_stats' = [server_stats EXCEPT !.security_violations = @ + verdict.violations]
  /\ UNCHANGED <<forwarder, input, last, server_vars>>

NextRepeat ==
  \/ CallValidateMac
  \/ CallValidateIp
  \/ CallCreateMagicPacket
  \/ CallOnOtherArgument

SpecRepeat == InitRepeat /\ [][NextRepeat]_vars

(***************************************************************************)
(* Direct calls of send_magic_packet, as the test suite and the handler    *)
(* make them                                                               *)
(***************************************************************************)
\* WOL_BROADCAST_IP: not set, or set to another subnet's broadcast address
BroadcastSettings ==
  { Environment(broadcast_ip, Str(<<>>)) :
      broadcast_ip \in {None, Str(<<"1", "0", ".", "0", ".", "0", ".", "2", "5", "5">>)} }

TargetIps == {None, Str(DEVICE_IP)}

InitSend ==
  /\ input \in RepeatInputs
  /\ server_stats = ZeroStats
  /\ last = NoCall
  /\ environ \in BroadcastSettings
  /\ handlers = [h \in Connections |-> IdleHandler]
  /\ completed = NoneCompleted
  /\ forwarder = ForwarderAtStart

CallSendMagicPacket ==
  /\ server_stats.security_violations < MaxViolations
  /\ server_stats.magic_packets_sent < MaxPackets
  /\ \E target_ip \in TargetIps, outcome \in SocketOutcomes :
       LET effects == send_magic_packet(input, target_ip, environ, outcome)
       IN  /\ server_stats' = [server_stats EXCEPT
                                 !.security_violations = @ + effects.violations,
                                 !.magic_packets_sent = @ + effects.packets_sent]
           /\ last' = [NoCall EXCEPT !.op = "send_magic_packet", !.ok = effects.result.success,
                                     !.violations_before = server_stats.security_violations,
                                     !.packets_before = server_stats.magic_packets_sent,
                                     !.outcome = outcome, !.datagrams = effects.datagrams,
                                     !.result = effects.result,
                                     !.opened = IF effects.opened THEN 1 ELSE 0,
                                     !.closed = IF effects.closed THEN 1 ELSE 0]
  /\ UNCHANGED <<forwarder, input, environ, handlers, completed>>

NextSend == CallSendMagicPacket

SpecSend == InitSend /\ [][NextSend]_vars

(***************************************************************************)
(* The packet builders of the repository applied to the same argument      *)
(***************************************************************************)
\* the texts of a MAC's size: up to twice the MAX_MAC_LENGTH of wol_server.py
MacSized(mac_address) == isinstance_str(mac_address) => Len(mac_address.chars) <= 2 * MAX_MAC_LENGTH

CallPacketBuilders ==
  /\ server_stats.security_violations < MaxViolations
  /\ MacSized(input)
  /\ \E verdict \in {validate_mac(input)}, packets \in {PacketBuilders(input)} :
       /\ server_stats' = [server_stats EXCEPT !.security_violations = @ + verdict.violations]
       /\ last' = [NoCall EXCEPT !.op = "builders", !.ok = verdict.ok,
                                 !.violations_before = server_stats.security_violations,
                                 !.packets = packets]
  /\ UNCHANGED <<forwarder, input, server_vars>>

NextBuilders ==
  \/ CallCreateMagicPacket
  \/ CallPacketBuilders

SpecBuilders == Init /\ [][NextBuilders]_vars

(***************************************************************************)
(* The three senders of the repository called one after the other:         *)
(* send_magic_packet of wol_server.py, forward_wol_packet of the forwarder *)
(* and send_magic_packet_python of app.py                                  *)
(***************************************************************************)
COMPLETE_SEND == SocketOutcome("sendto_returns", PACKET_SIZE, "")

SEND_TIMEOUT == SocketOutcome("sendto_timeout", 0, "timed out")

\* the outcomes of the six sends of one forward_wol_packet: every mix of
\* complete sends and timeouts on port 9 with port 7 all complete or all
\* timed out, and each outcome at each position among complete sends
ForwardOutcomes ==
  { [i \in 1..Len(ForwardAddresses) |-> IF i <= 3 THEN first[i] ELSE backup] :
      first \in [1..3 -> {COMPLETE_SEND, SEND_TIMEOUT}], backup \in {COMPLETE_SEND, SEND_TIMEOUT} }
    \cup { [i \in 1..Len(ForwardAddresses) |-> IF i = at THEN other ELSE COMPLETE_SEND] :
             at \in 1..Len(ForwardAddresses),
             other \in { o \in SocketOutcomes : o.bytes_sent \in {0, 51} } }

\* forward_wol_packet on the packet of the argument, as handle_client calls
\* it with a datagram that validate_magic_packet accepted
CallForwardWolPacket ==
  \E magic_packet \in {create_magic_packet(input)}, outcomes \in ForwardOutcomes :
    /\ ~magic_packet.is_none
    /\ LET forwarded == forward_wol_packet(magic_packet.bytes, outcomes)
       IN  last' = [NoCall EXCEPT !.op = "forward_wol_packet", !.ok = forwarded.total_sent > 0,
                                  !.raised = forwarded.raised, !.outcomes = outcomes,
                                  !.attempts = forwarded.attempts,
                                  !.datagrams = forwarded.datagrams,
                                  !.total_sent = forwarded.total_sent,
                                  !.opened = forwarded.opened, !.closed = forwarded.closed]
    /\ UNCHANGED <<forwarder, input, server_stats, environ, handlers, completed>>

\* send_magic_packet_python on the formatted MAC of the argument, as
\* send_magic_packet of app.py calls it (line 130) behind is_valid_mac
CallSendMagicPacketPython ==
  /\ isinstance_str(input)
  /\ is_valid_mac(input).ok
  /\ \E sockets \in SocketCallOutcomes :
       LET sent == send_magic_packet_python(app_format_mac(input), None, sockets)
       IN  last' = [NoCall EXCEPT !.op = "send_magic_packet_python", !.ok = sent.success,
                                  !.sockets = sockets, !.datagrams = sent.datagrams,
                                  !.opened = IF sent.opened THEN 1 ELSE 0,
                                  !.closed = IF sent.closed THEN 1 ELSE 0]
  /\ UNCHANGED <<forwarder, input, server_stats, environ, handlers, completed>>

NextSenders ==
  \/ CallSendMagicPacket
  \/ CallForwardWolPacket
  \/ CallSendMagicPacketPython

SpecSenders == InitSend /\ [][NextSenders]_vars

(***************************************************************************)
(* The forwarder: start_server hands every datagram it receives to a       *)
(* thread of its own that runs handle_client (lines 205-217).  An          *)
(* increment stats[key] += n is a read of the counter followed by a write  *)
(* of the value read plus n, and the threads run in any order.             *)
(***************************************************************************)
SENT_MACS ==
  { WellFormedMacSample,
    <<"0", "0", ":", "1", "b", ":", "6", "3", ":", "8", "4", ":", "4", "5", ":", "e", "6">>,
    <<"F", "F", "F", "F", "F", "F", "F", "F", "F", "F", "F", "F">> }

\* magic packets as send_test_packet of docker/test_wol_forwarder.py sends
\* them
MagicDatagrams == { forwarder_test_magic_packet(mac).bytes : mac \in SENT_MACS }

SAMPLE_PACKET == forwarder_test_magic_packet(WellFormedMacSample).bytes

\* other datagrams: nothing, a packet cut short or with a byte too many, a
\* wrong header byte, a MAC repetition that differs in its second, a middle
\* or its last block, and 102 bytes of zero
OtherDatagrams ==
  { <<>>, SubSeq(SAMPLE_PACKET, 1, PACKET_SIZE - 1), SAMPLE_PACKET \o <<1>>,
    [SAMPLE_PACKET EXCEPT ![6] = 254], [SAMPLE_PACKET EXCEPT ![13] = 0],
    [SAMPLE_PACKET EXCEPT ![50] = 0], [SAMPLE_PACKET EXCEPT ![PACKET_SIZE] = 0],
    Repeat(<<0>>, PACKET_SIZE) }

Datagrams == MagicDatagrams \cup OtherDatagrams

\* the outcomes of the six sends of a thread: all complete, all timed out,
\* or one send failing among complete ones
ThreadOutcomes ==
  { outcomes \in ForwardOutcomes :
      Cardinality({ i \in 1..Len(outcomes) : outcomes[i] = COMPLETE_SEND }) \in {0, 5, 6} }

InitForwarder ==
  /\ input = None
  /\ server_stats = ZeroStats
  /\ last = NoCall
  /\ ServerAtStart

thread_at(t, pc) == forwarder.threads[t].pc = pc

\* recvfrom and thread.start() (lines 209-217) for a datagram of the set
DispatchFrom(t, datagrams) ==
  /\ thread_at(t, "idle")
  /\ forwarder.dispatched < MaxDatagrams
  /\ \E data \in datagrams :
       forwarder' = [forwarder EXCEPT
                       !.threads[t] = [IdleThread EXCEPT !.pc = "load_received", !.data = data],
                       !.dispatched = @ + 1]
  /\ UNCHANGED <<input, server_stats, last, server_vars>>

\* datagrams that arrive while threads are running: a magic packet and an
\* empty datagram
Dispatch(t) == DispatchFrom(t, {SAMPLE_PACKET, <<>>})

\* a datagram that arrives when no thread is left
DispatchAlone(t) ==
  /\ \A other \in Threads : thread_at(other, "idle")
  /\ DispatchFrom(t, Datagrams)

\* the read of self.stats['packets_received'] += 1 (line 158)
LoadReceived(t) ==
  /\ thread_at(t, "load_received")
  /\ forwarder' = [forwarder EXCEPT !.threads[t].tmp = forwarder.stats.packets_received,
                                    !.threads[t].pc = "store_received"]
  /\ UNCHANGED <<input, server_stats, last, server_vars>>

\* the write of stats[key] += n: the value read before plus n
stored(current, read, n) == read + n

\* the write of self.stats['packets_received'] += 1 (line 158)
StoreReceived(t) ==
  /\ thread_at(t, "store_received")
  /\ forwarder' = [forwarder EXCEPT
                     !.stats.packets_received = stored(@, forwarder.threads[t].tmp, 1),
                     !.threads[t].wrote = @ \cup {"packets_received"},
                     !.threads[t].pc = "validate"]
  /\ UNCHANGED <<input, server_stats, last, server_vars>>

\* validate_magic_packet and the return of lines 165-167
Validate(t) ==
  /\ thread_at(t, "validate")
  /\ LET verdict == validate_magic_packet(forwarder.threads[t].data)
     IN  forwarder' = [forwarder EXCEPT
                         !.threads[t].is_valid = verdict.is_valid,
                         !.threads[t].mac_address = verdict.mac_str,
                         !.threads[t].pc = IF verdict.is_valid THEN "forward" ELSE "finished"]
  /\ UNCHANGED <<input, server_stats, last, server_vars>>

\* the sends of forward_wol_packet (lines 131-151)
Forward(t) ==
  /\ thread_at(t, "forward")
  /\ \E outcomes \in ThreadOutcomes :
       LET forwarded == forward_wol_packet(forwarder.threads[t].data, outcomes)
       IN  forwarder' = [forwarder EXCEPT
                           !.threads[t].sends = Len(forwarded.attempts),
                           !.threads[t].total_sent = forwarded.total_sent,
                           !.threads[t].pc = "load_forwarded",
                           !.sent = @ + forwarded.total_sent]
  /\ UNCHANGED <<input, server_stats, last, server_vars>>

\* the read of self.stats['packets_forwarded'] += total_sent (line 153)
LoadForwarded(t) ==
  /\ thread_at(t, "load_forwarded")
  /\ forwarder' = [forwarder EXCEPT !.threads[t].tmp = forwarder.stats.packets_forwarded,
                                    !.threads[t].pc = "store_forwarded"]
  /\ UNCHANGED <<input, server_stats, last, server_vars>>

\* the write of self.stats['packets_forwarded'] += total_sent (line 153)
StoreForwarded(t) ==
  /\ thread_at(t, "store_forwarded")
  /\ forwarder' = [forwarder EXCEPT
                     !.stats.packets_forwarded =
                        stored(@, forwarder.threads[t].tmp, forwarder.threads[t].total_sent),
                     !.threads[t].wrote = @ \cup {"packets_forwarded"},
                     !.threads[t].pc = "finished"]
  /\ UNCHANGED <<input, server_stats, last, server_vars>>

\* the thread ends
Finish(t) ==
  /\ thread_at(t, "finished")
  /\ forwarder' = [forwarder EXCEPT !.threads[t] = IdleThread]
  /\ UNCHANGED <<input, server_stats, last, server_vars>>

HandleClient(t) ==
  \/ LoadReceived(t)
  \/ StoreReceived(t)
  \/ Validate(t)
  \/ Forward(t)
  \/ LoadForwarded(t)
  \/ StoreForwarded(t)
  \/ Finish(t)

NextForwarder == \E t \in Threads : Dispatch(t) \/ HandleClient(t)

SpecForwarder == InitForwarder /\ [][NextForwarder]_vars

\* the datagrams handled one after the other
NextHandleClient == \E t \in Threads : DispatchAlone(t) \/ HandleClient(t)

SpecHandleClient == InitForwarder /\ [][NextHandleClient]_vars

(***************************************************************************)
(* The server: SecureHTTPServer.serve_forever and the WoLHandler of each   *)
(* connection.  An increment server_stats[key] += 1 is a read of the       *)
(* counter followed by a write of the value read plus one.                 *)
(***************************************************************************)
InitServer ==
  /\ input = None
  /\ last = NoCall
  /\ server_stats = ZeroStats
  /\ environ \in BroadcastSettings
  /\ handlers = [h \in Connections |-> IdleHandler]
  /\ completed = NoneCompleted
  /\ forwarder = ForwarderAtStart

\* a client connects; its request waits until the server takes it
Connect(h) ==
  /\ handlers[h].pc = "idle"
  /\ completed.count + Cardinality({c \in Connections : handlers[c].pc \notin {"idle", "done"}})
       < MaxRequests
  /\ handlers' = [handlers EXCEPT ![h].pc = "pending"]
  /\ UNCHANGED <<forwarder, input, last, server_stats, environ, completed>>

\* a server with one thread per request: a request is taken at once
server_takes_at_once(h) == TRUE

\* HTTPServer handles one request at a time (SecureHTTPServer adds no
\* threading mix-in): the next request is taken when the handler of the
\* one before has returned and its connection is closed
server_is_free(h) == \A other \in Connections : handlers[other].pc \in {"idle", "pending"}

\* the server takes the request of connection h, one of requests, and
\* calls do_GET or do_POST
ReceiveFrom(h, requests) ==
  /\ handlers[h].pc = "pending"
  /\ server_is_free(h)
  /\ \E request \in requests :
       LET decision == route(request)
       IN  handlers' = [handlers EXCEPT ![h] =
             [IdleHandler EXCEPT !.pc = "load", !.request = request,
                                 !.todo = <<"requests_handled">> \o decision.increments,
                                 !.proceeds = decision.proceeds,
                                 !.body_read = decision.body_read,
                                 !.response = decision.response]]
  /\ UNCHANGED <<forwarder, input, last, server_stats, environ, completed>>

Receive(h) == ReceiveFrom(h, Requests)

\* the read of server_stats[key] += 1
Load(h) ==
  /\ handlers[h].pc = "load"
  /\ handlers' = [handlers EXCEPT ![h].pc = "store",
                                  ![h].tmp = server_stats[Head(handlers[h].todo)]]
  /\ UNCHANGED <<forwarder, input, last, server_stats, environ, completed>>

\* the value server_stats[key] -= 1 would write
minus_one(value) == value - 1

\* the value server_stats[key] += 1 writes, value being the one it read
plus_one(value) == value + 1

\* the write of server_stats[key] += 1; the handler goes on to its next
\* increment, to send_magic_packet or to its answer
Store(h) ==
  /\ handlers[h].pc = "store"
  /\ LET key == Head(handlers[h].todo)
         rest == Tail(handlers[h].todo)
     IN  /\ server_stats' = [server_stats EXCEPT ![key] = plus_one(handlers[h].tmp)]
         /\ handlers' = [handlers EXCEPT
              ![h].todo = rest,
              ![h].incremented[key] = @ + 1,
              ![h].pc = IF rest # <<>> THEN "load"
                        ELSE IF handlers[h].proceeds THEN "send" ELSE "respond"]
  /\ UNCHANGED <<forwarder, input, last, environ, completed>>

\* result = send_magic_packet(mac_address, target_ip) (line 447) up to its
\* increment of magic_packets_sent, and the answer built from the result
SendTo(h) ==
  /\ handlers[h].pc = "send"
  /\ \E outcome \in SocketOutcomes :
       LET request_data == handlers[h].request.body.value
           mac_address == get(request_data.mac, None)
           target_ip == get(request_data.ip, None)
           device_name == get(request_data.name, UNKNOWN_DEVICE)
           effects == send_magic_packet(mac_address, target_ip, environ, outcome)
           todo == violations_counted(effects.violations) \o
                   Repeat(<<"magic_packets_sent">>, effects.packets_sent)
       IN  handlers' = [handlers EXCEPT
             ![h].proceeds = FALSE,
             ![h].built = effects.result.error # "Invalid MAC address format",
             ![h].outcome = outcome,
             ![h].datagrams = effects.datagrams,
             ![h].returned = effects.returned,
             ![h].error = effects.result.error,
             ![h].todo = todo,
             ![h].response = wake_response(effects.result, target_ip, device_name),
             ![h].pc = IF todo # <<>> THEN "load" ELSE "respond"]
  /\ UNCHANGED <<forwarder, input, last, server_stats, environ, completed>>

\* the path a handler took, told from its request and its answer: every
\* request is a request handled; a 200 of /wake is a packet sent; the
\* answers to invalid JSON, an invalid MAC and an invalid IP are validation
\* errors; a 413, and a MAC or IP refused for its length or for a denylisted
\* pattern, are security violations
took_path(handler, k) ==
  LET data == handler.request.body.value
      message == handler.response.message
  IN  CASE k = "requests_handled" -> TRUE
        [] k = "magic_packets_sent" ->
             handler.request.path = "/wake" /\ handler.response.status_code = 200
        [] k = "validation_errors" ->
             message \in {"Invalid JSON format", "Invalid MAC address format",
                          "Invalid IP address format"}
        [] OTHER ->
             \/ handler.response.status_code = 413
             \/ message = "Invalid MAC address format"
                  /\ validate_mac(get(data.mac, None)).step \in {"too_long", "dangerous_pattern"}
             \/ message = "Invalid IP address format"
                  /\ validate_ip(get(data.ip, None)).step \in {"too_long", "dangerous_pattern"}

\* send_json_response: the answer is written; handle_health_check reads the
\* counters into it
Respond(h) ==
  /\ handlers[h].pc = "respond"
  /\ handlers' = [handlers EXCEPT
       ![h].pc = "done",
       ![h].response.health =
          IF handlers[h].request.method = "GET" /\ handlers[h].response.status_code = 200
          THEN server_stats ELSE @]
  /\ completed' = [count |-> completed.count + 1,
                   paths |-> [k \in CounterNames |->
                      completed.paths[k] + (IF took_path(handlers[h], k) THEN 1 ELSE 0)]]
  /\ UNCHANGED <<forwarder, input, last, server_stats, environ>>

\* the connection is closed
Close(h) ==
  /\ handlers[h].pc = "done"
  /\ handlers' = [handlers EXCEPT ![h] = IdleHandler]
  /\ UNCHANGED <<forwarder, input, last, server_stats, environ, completed>>

NextServer ==
  \E h \in Connections :
    \/ Connect(h)
    \/ Receive(h)
    \/ Load(h)
    \/ Store(h)
    \/ SendTo(h)
    \/ Respond(h)
    \/ Close(h)

SpecServer == InitServer /\ [][NextServer]_vars

(***************************************************************************)
(* The server under requests that arrive together: one request for each    *)
(* path through the counters                                               *)
(***************************************************************************)
JsonWakeRequest(mac, ip, name) ==
  WakeRequest(Str(APPLICATION_JSON), Str(<<"6", "0">>), Body("json", JsonObject(mac, ip, name)))

PathRequests ==
  { Request("GET", "/health", Absent, Absent, Body("none", JsonValue(None))),
    Request("GET", "/", Absent, Absent, Body("none", JsonValue(None))),
    JsonWakeRequest(Str(WellFormedMacSample), Str(DEVICE_IP), Absent),
    JsonWakeRequest(Str(DROP_TABLE), Absent, Absent),
    JsonWakeRequest(Str(WellFormedMacSample), Str(SCRIPT_TAG), Absent),
    JsonWakeRequest(Str(WellFormedMacSample), Absent, Str(Repeat(<<"N">>, MAX_NAME_LENGTH + 1))),
    WakeRequest(Str(APPLICATION_JSON), Str(<<"6", "0">>), Body("malformed", JsonValue(None))),
    WakeRequest(Str(APPLICATION_JSON), Str(<<"2", "0", "0", "0">>),
                Body("json", JsonObject(Str(WellFormedMacSample), Absent, Absent))) }

ReceivePath(h) == ReceiveFrom(h, PathRequests)

NextConcurrent ==
  \E h \in Connections :
    \/ Connect(h)
    \/ ReceivePath(h)
    \/ Load(h)
    \/ Store(h)
    \/ SendTo(h)
    \/ Respond(h)
    \/ Close(h)

SpecConcurrent == InitServer /\ [][NextConcurrent]_vars

(***************************************************************************)
(* The Flask server: each request is answered by wake_on_lan or by         *)
(* health_check; the server keeps no state between requests                *)
(***************************************************************************)
API_KEY == Str(<<"s", "e", "c", "r", "e", "t">>)

BLANK_KEY == Str(<<" ", " ">>)

\* api_key of the configuration: the default "", blanks only, or a key
AppEnvironments == { Environment(None, api_key) : api_key \in {Str(<<>>), BLANK_KEY, API_KEY} }

\* the X-API-Key header of a request: absent, empty, another key, the key
ApiKeyHeaders == {Absent, Str(<<>>), Str(<<"w", "r", "o", "n", "g">>), API_KEY}

AppObjects ==
  { JsonObject(mac, ip, Absent) :
      mac \in {Absent, Str(<<>>), IntValue(123), Str(WellFormedMacSample), Str(LOWER_DASHED_MAC),
               Str(<<"A", "A", ":", "B", "B", ":", "C", "C">>)},
      ip \in {Absent, Str(DEVICE_IP)} }

AppBodies ==
  { Body("malformed", JsonValue(None)), Body("json", JsonValue(None)),
    Body("json", JsonValue(EmptyList)) } \cup
  { Body("json", object) : object \in AppObjects }

WolRequest(content_type, api_key, body) ==
  [Request("POST", "/wol", content_type, Absent, body) EXCEPT !.api_key = api_key]

AppRequests ==
  { WolRequest(Str(APPLICATION_JSON), API_KEY, body) : body \in AppBodies } \cup
  { WolRequest(Str(APPLICATION_JSON), api_key,
               Body("json", JsonObject(Str(WellFormedMacSample), Absent, Absent))) :
      api_key \in ApiKeyHeaders } \cup
  { WolRequest(content_type, API_KEY, Body("json", JsonObject(Str(WellFormedMacSample), Absent, Absent))) :
      content_type \in {Absent, JSON_WITH_CHARSET, Str(<<"t", "e", "x", "t", "/", "p", "l", "a", "i", "n">>)} }

InitApp ==
  /\ input = None
  /\ last = NoCall
  /\ server_stats = ZeroStats
  /\ environ \in AppEnvironments
  /\ handlers = [h \in Connections |-> IdleHandler]
  /\ completed = NoneCompleted
  /\ forwarder = ForwarderAtStart

\* The handlers of app.py share no state that they write (config is read
\* only), so their answers are looked at one at a time: a request is taken
\* when every connection is closed
NoAnswerOpen == \A h \in Connections : handlers[h].pc = "idle"

\* POST /wol on connection h: the whole of wake_on_lan.  The outcome of
\* the wakeonlan command and of the socket calls is kept only when the
\* handler got as far as making them.
CallWakeOnLan(h) ==
  /\ NoAnswerOpen
  /\ completed.count < MaxRequests
  /\ \E request \in AppRequests, command \in CommandOutcomes, sockets \in SocketCallOutcomes :
       LET answer == wake_on_lan(request, environ, command, sockets)
           ran == answer.cmd # <<>>
           fell_back == answer.python_called
       IN  handlers' = [handlers EXCEPT ![h] =
             [IdleHandler EXCEPT !.pc = "done", !.request = request,
                                 !.wakeonlan = IF ran THEN command ELSE NoCommand,
                                 !.sockets = IF fell_back THEN sockets ELSE NoSockets,
                                 !.built = ran,
                                 !.proceeds = answer.handler_ran,
                                 !.datagrams = answer.datagrams,
                                 !.error = answer.result.error,
                                 !.response = answer.response]]
  /\ completed' = [completed EXCEPT !.count = @ + 1]
  /\ UNCHANGED <<forwarder, input, last, server_stats, environ>>

\* a GET request with an X-API-Key header
GetRequest(path, api_key) ==
  [Request("GET", path, Absent, Absent, Body("none", JsonValue(None))) EXCEPT !.api_key = api_key]

\* GET /health on connection h
CallHealthCheck(h) ==
  /\ NoAnswerOpen
  /\ completed.count < MaxRequests
  /\ \E api_key \in ApiKeyHeaders :
       LET request == GetRequest("/health", api_key)
           answer == health_check(request, environ)
       IN  handlers' = [handlers EXCEPT ![h] =
             [IdleHandler EXCEPT !.pc = "done", !.request = request,
                                 !.proceeds = answer.handler_ran,
                                 !.response = answer.response]]
  /\ completed' = [completed EXCEPT !.count = @ + 1]
  /\ UNCHANGED <<forwarder, input, last, server_stats, environ>>

\* GET /status on connection h
CallServerStatus(h) ==
  /\ NoAnswerOpen
  /\ completed.count < MaxRequests
  /\ \E api_key \in ApiKeyHeaders :
       LET request == GetRequest("/status", api_key)
           answer == server_status(request, environ)
       IN  handlers' = [handlers EXCEPT ![h] =
             [IdleHandler EXCEPT !.pc = "done", !.request = request,
                                 !.proceeds = answer.handler_ran,
                                 !.response = answer.response]]
  /\ completed' = [completed EXCEPT !.count = @ + 1]
  /\ UNCHANGED <<forwarder, input, last, server_stats, environ>>

NextApp ==
  \E h \in Connections :
    \/ CallWakeOnLan(h)
    \/ CallHealthCheck(h)
    \/ CallServerStatus(h)
    \/ Close(h)

SpecApp == InitApp /\ [][NextApp]_vars

(***************************************************************************)
(* Properties                                                              *)
(***************************************************************************)
IsStr(x) == x.type = "str"

\* the hex digits of a text, in order and in upper case
CanonicalDigits(chars) == SelectSeq(upper(chars), LAMBDA c : c \in hex_chars)

\* the j-th raw byte of a canonical 12-digit MAC
MacByte(ds, j) ==
  16 * (IndexOf(hexdigits, ds[2 * j - 1]) - 1) + (IndexOf(hexdigits, ds[2 * j]) - 1)

\* twelve hex digits written AABBCCDDEEFF, AA:BB:CC:DD:EE:FF or AA-BB-CC-DD-EE-FF
IsStyledMac(chars) ==
  \/ Len(chars) = 12 /\ \A i \in 1..12 : is_hex(chars[i])
  \/ /\ Len(chars) = 17
     /\ chars[3] \in {":", "-"}
     /\ \A i \in 1..17 : IF i % 3 = 0 THEN chars[i] = chars[3] ELSE is_hex(chars[i])

\* the same twelve digits in the other separator styles and letter cases
Restylings(chars) ==
  LET ds == SelectSeq(chars, is_hex)
  IN  { letter_case(format_mac(ds, sep), style) : sep \in SeparatorStyles, style \in CaseStyles }
        \cup { format_mac(ds, sep) : sep \in SeparatorStyles }

\* C1: for every MAC that validate_mac accepts, create_magic_packet returns
\* exactly 102 bytes: six bytes 0xFF, then sixteen blocks that each equal the
\* six raw bytes of the MAC's canonical 12-hex-digit form.
C1_PacketLayout ==
  (last.op = "create_magic_packet" /\ last.ok) =>
    /\ ~last.is_none
    /\ Len(last.bytes) = 102
    /\ \A i \in 1..6 : last.bytes[i] = 255
    /\ \A block \in 0..15 : \A j \in 1..6 :
         last.bytes[6 + 6 * block + j] = MacByte(CanonicalDigits(input.chars), j)

C1_Witness ==
  /\ last.op = "create_magic_packet"
  /\ last.ok
  /\ ":" \in Range(input.chars)
  /\ Len(last.bytes) = 102

\* C2: two MAC strings with the same 12 hex digits that differ only in
\* separator style (all ':', all '-', none) and letter case get the same
\* boolean from validate_mac and, when it is true, the same packet bytes from
\* create_magic_packet.
C2_StyleIndependent ==
  (last.op \in {"validate_mac", "create_magic_packet"} /\ IsStr(input) /\ IsStyledMac(input.chars)) =>
    \A other \in Restylings(input.chars) :
      /\ validate_mac(Str(other)).ok = last.ok
      /\ (last.op = "create_magic_packet" /\ last.ok) =>
           /\ ~create_magic_packet(Str(other)).is_none
           /\ create_magic_packet(Str(other)).bytes = last.bytes

C2_Witness ==
  /\ last.op = "create_magic_packet"
  /\ last.ok
  /\ IsStr(input) /\ IsStyledMac(input.chars)
  /\ "-" \in Range(input.chars)
  /\ input.chars # upper(input.chars)

\* C3: create_magic_packet re-validates its argument: for a string, None or
\* a non-text value it returns a packet exactly when validate_mac accepts the
\* argument and None otherwise, and no exception leaves it.
C3_PacketIffValid ==
  (last.op = "create_magic_packet") =>
    /\ ~last.raised
    /\ last.is_none <=> ~validate_mac(input).ok
    /\ ~last.is_none => Len(last.bytes) = PACKET_SIZE

C3_Witness ==
  /\ last.op = "create_magic_packet"
  /\ ~IsStr(input) /\ truthy(input)
  /\ last.is_none

\* a text holds one of the patterns, letter case disregarded
HoldsSignature(chars, patterns) ==
  \E pattern \in patterns : \E i \in 0..(Len(chars) - Len(pattern)) :
    lower(SubSeq(chars, i + 1, i + Len(pattern))) = pattern

ValidatorCalled == last.op \in {"validate_mac", "validate_ip"}

ViolationsAdded == server_stats.security_violations - last.violations_before

WellFormedMacText == <<"A","A",":","B","B",":","C","C",":","D","D",":","E","E",":","F","F">>

\* C4: in validate_mac the denylist check comes before any structural
\* parsing: an input of at most 50 characters that holds a denylist signature
\* (compared case-insensitively) is rejected and security_violations grows by
\* one, also when the input begins with, or would clean to, a well-formed MAC.
C4_DenylistBeforeParsing ==
  (/\ last.op = "validate_mac"
   /\ IsStr(input)
   /\ Len(input.chars) <= 50
   /\ HoldsSignature(input.chars, mac_dangerous_patterns)) =>
    /\ ~last.ok
    /\ ViolationsAdded = 1

C4_Witness ==
  /\ last.op = "validate_mac"
  /\ IsStr(input)
  /\ Len(input.chars) <= 50
  /\ startswith(input.chars, WellFormedMacText)
  /\ HoldsSignature(input.chars, mac_dangerous_patterns)
  /\ ViolationsAdded = 1

\* the inputs C5 names
IsAttackText(chars) ==
  \/ contains(chars, DROP_TABLE)
  \/ contains(chars, SCRIPT_TAG)
  \/ contains(chars, ETC_PASSWD)
  \/ Len(chars) = REPEATED_LENGTH /\ Cardinality(Range(chars)) = 1

\* C5: validate_mac and validate_ip reject every input that holds
\* "'; DROP TABLE", "<script>" or "../../../etc/passwd", or that is a string
\* of 1000 repeated characters, and the call strictly increases
\* security_violations.
C5_AttackTextCounted ==
  (ValidatorCalled /\ IsStr(input) /\ IsAttackText(input.chars)) =>
    /\ ~last.ok
    /\ server_stats.security_violations > last.violations_before

\* C6: one call of validate_mac or validate_ip adds exactly 1 to
\* security_violations when the rejection comes from the length cap (more
\* than 50 characters for a MAC, more than 15 for an IP) or from a denylist
\* match, and adds nothing on every other outcome.
C6_ViolationsFrame ==
  ValidatorCalled =>
    LET cap == IF last.op = "validate_mac" THEN 50 ELSE 15
    IN  /\ ViolationsAdded = (IF last.step \in {"too_long", "dangerous_pattern"} THEN 1 ELSE 0)
        /\ last.step = "too_long" => IsStr(input) /\ Len(input.chars) > cap
        /\ last.step = "dangerous_pattern" =>
             /\ IsStr(input) /\ Len(input.chars) <= cap
             /\ IF last.op = "validate_mac"
                THEN HoldsSignature(input.chars, mac_dangerous_patterns)
                ELSE \E pattern \in ip_dangerous_patterns : contains(input.chars, pattern)
        /\ (last.ok \/ ~IsStr(input) \/ input.chars = <<>>) => ViolationsAdded = 0

C6_Witness ==
  /\ last.op = "validate_ip"
  /\ last.step = "too_long"
  /\ Len(input.chars) = 16
  /\ ViolationsAdded = 1

\* the canonical form is twelve times the same hex digit
AllIdenticalCanonical(chars) ==
  LET canonical == SelectSeq(upper(chars), NotSeparator)
  IN  /\ Len(canonical) = 12
      /\ canonical[1] \in hex_chars
      /\ \A i \in 1..12 : canonical[i] = canonical[1]

\* C7: validate_mac rejects every input whose canonical form is twelve
\* identical hex digits, in any separator style and letter case; the two
\* values of the explicit policy check are among them.
C7_AllIdenticalRejected ==
  /\ (last.op = "validate_mac" /\ IsStr(input) /\ AllIdenticalCanonical(input.chars)) => ~last.ok
  /\ \A mac \in invalid_macs : AllIdenticalCanonical(mac)

C7_Witness ==
  /\ last.op = "validate_mac"
  /\ last.step = "all_same"
  /\ ":" \in Range(input.chars)
  /\ "a" \in Range(input.chars)

\* C8: validate_mac rejects every input that holds both a ':' and a '-',
\* wherever they stand and also when the other characters are 12 hex digits.
C8_MixedSeparatorsRejected ==
  (/\ last.op = "validate_mac"
   /\ IsStr(input)
   /\ ":" \in Range(input.chars)
   /\ "-" \in Range(input.chars)) => ~last.ok

C8_Witness ==
  /\ last.op = "validate_mac"
  /\ last.step = "mixed_separators"
  /\ Len(CanonicalDigits(input.chars)) = 12
  /\ Len(input.chars) = 17

\* a decimal numeral of digits only, without a leading zero, of value 0..255
StrictOctet(part) ==
  /\ Len(part) \in 1..3
  /\ \A i \in 1..Len(part) : IsDigit(part[i])
  /\ Len(part) > 1 => part[1] # "0"
  /\ decimal_value(part) <= 255

\* C9: validate_ip returns true only for four '.'-separated parts that are
\* each a decimal numeral written with digits only (no sign, no whitespace,
\* no other character), without a leading zero unless it is the digit 0, and
\* of value 0..255.
C9_OnlyStrictDottedQuads ==
  (last.op = "validate_ip" /\ last.ok) =>
    /\ Len(split(input.chars, ".")) = 4
    /\ \A i \in 1..4 : StrictOctet(split(input.chars, ".")[i])

PassedFormatSteps ==
  /\ last.op = "validate_ip"
  /\ last.step \in {"rejected_ips", "localhost", "accepted"}

OctetValues == [i \in 1..4 |-> py_int(split(input.chars, ".")[i]).value]

\* C10: validate_ip never accepts an address whose four octet values are
\* 0.0.0.0 or 255.255.255.255, nor one whose first octet has the value 127,
\* for every input that passes the earlier format steps.
C10_ReservedNeverAccepted ==
  (/\ PassedFormatSteps
   /\ \/ OctetValues = <<0, 0, 0, 0>>
      \/ OctetValues = <<255, 255, 255, 255>>
      \/ OctetValues[1] = 127) => ~last.ok


\* a text with a blank at either end, or a tab or newline anywhere
HasOuterOrControlBlank(chars) ==
  /\ chars # <<>>
  /\ \/ chars[1] \in whitespace
     \/ chars[Len(chars)] \in whitespace
     \/ "\t" \in Range(chars)
     \/ "\n" \in Range(chars)

\* C11: validate_ip never trims: an input that differs from its trimmed form,
\* or that holds a tab or newline anywhere, is rejected, and so are ' ' + s
\* and s + ' ' for every text s, also one that validate_ip accepts;
\* validate_mac accepts a valid MAC surrounded by whitespace.
C11_IpNeverTrims ==
  /\ (last.op = "validate_ip" /\ IsStr(input)) =>
       /\ HasOuterOrControlBlank(input.chars) => ~last.ok
       /\ ~validate_ip(Str(<<" ">> \o input.chars)).ok
       /\ ~validate_ip(Str(input.chars \o <<" ">>)).ok
  /\ (/\ last.op = "validate_mac"
      /\ IsStr(input)
      /\ Len(input.chars) <= MAX_MAC_LENGTH
      /\ validate_mac(Str(strip(input.chars))).ok) => last.ok

C11_Witness ==
  /\ last.op = "validate_ip"
  /\ IsStr(input)
  /\ input.chars # <<>>
  /\ input.chars[Len(input.chars)] = " "
  /\ validate_ip(Str(strip(input.chars))).ok
  /\ ~last.ok


SendCalled == last.op = "send_magic_packet"

\* sendto was called and returned the length of the packet
SendtoReturnedAll ==
  /\ last.datagrams # <<>>
  /\ last.outcome.kind = "sendto_returns"
  /\ last.outcome.bytes_sent = PACKET_SIZE

\* C13: send_magic_packet reports success exactly when sendto returned 102,
\* the length of the packet; magic_packets_sent grows by 1 in that case and
\* stays as it was on every failure (invalid MAC, partial send, timeout,
\* any other socket error)
C13_SuccessIffAllBytesSent ==
  SendCalled =>
    /\ last.ok <=> SendtoReturnedAll
    /\ last.ok => last.result.packet_size = PACKET_SIZE
    /\ server_stats.magic_packets_sent =
         last.packets_before + (IF SendtoReturnedAll THEN 1 ELSE 0)

\* a successful send after an earlier one, and so counted on top of it
C13_Witness ==
  /\ SendCalled
  /\ last.ok
  /\ SendtoReturnedAll
  /\ last.packets_before = 1
  /\ server_stats.magic_packets_sent = 2


\* the error values and messages written into the code as literals
GenericErrors ==
  {"Invalid MAC address format", "Incomplete packet transmission", "Network timeout",
   "Network error", PYTHON_FAILED}

GenericMessages == {"Failed to send magic packet", "Error enviando Magic Packet"}

\* str(e) of the exceptions the socket calls and the wakeonlan command raise
ExceptionTexts ==
  { o.text : o \in SocketOutcomes \cup PortOutcomes \cup CommandOutcomes } \ {""}

\* handler h has answered a request whose send failed
AnsweredFailedSend(h) ==
  /\ handlers[h].pc = "done"
  /\ handlers[h].built
  /\ handlers[h].error # ""

\* C14: every failure result of send_magic_packet carries an error taken
\* from the fixed generic strings and never the text of the exception that
\* caused it, and the HTTP answer for a failed send carries a fixed message
\* only
C14_GenericErrorsOnly ==
  /\ (SendCalled /\ ~last.ok) =>
        last.result.error \in GenericErrors \ ExceptionTexts
  /\ \A h \in Connections :
        AnsweredFailedSend(h) =>
          /\ handlers[h].error \in GenericErrors \ ExceptionTexts
          /\ handlers[h].response.status_code = 500
          /\ handlers[h].response.message \in GenericMessages
          /\ handlers[h].response.details \in ({""} \cup GenericErrors) \ ExceptionTexts


(***************************************************************************)
(* The handler of POST /wake                                               *)
(***************************************************************************)
\* the fields of the body of the request handler h holds
RequestMac(h) == get(handlers[h].request.body.value.mac, None)

RequestIp(h) == get(handlers[h].request.body.value.ip, None)

RequestName(h) == get(handlers[h].request.body.value.name, UNKNOWN_DEVICE)

\* the one destination the configuration allows
ConfiguredDestination == [ip |-> getenv_broadcast_ip(environ), port |-> WOL_PORT]

\* C15: the address and port a packet is sent to do not depend on the ip
\* field of the request: every datagram goes to the configured broadcast
\* address, port 9, so requests differing only in ip send to the same
\* place; the ip value shows up only in the answer, as target.ip
C15_DestinationIgnoresIp ==
  \A h \in Connections :
    /\ \A i \in 1..Len(handlers[h].datagrams) :
         handlers[h].datagrams[i].address = ConfiguredDestination
    /\ (handlers[h].pc = "done" /\ handlers[h].response.status_code = 200
          /\ handlers[h].request.path = "/wake")
         => handlers[h].response.target_ip = RequestIp(h)

\* a request naming the device's own address was answered 200, its packet
\* having gone to the broadcast address
C15_Witness ==
  \E h \in Connections :
    /\ handlers[h].pc = "done"
    /\ handlers[h].response.status_code = 200
    /\ RequestIp(h) = Str(DEVICE_IP)
    /\ handlers[h].response.target_ip = Str(DEVICE_IP)
    /\ Len(handlers[h].datagrams) = 1
    /\ handlers[h].datagrams[1].address.ip # DEVICE_IP


\* handler h is handling, or has answered, a POST /wake whose body it read
\* and parsed into a JSON object
ReachedFieldChecks(h) ==
  /\ handlers[h].pc \notin {"idle", "pending"}
  /\ handlers[h].request.method = "POST"
  /\ handlers[h].request.path = "/wake"
  /\ handlers[h].body_read
  /\ handlers[h].request.body.kind = "json"
  /\ handlers[h].request.body.value.type = "dict"

\* the body holds an ip (a key ip whose value is not null)
IpSupplied(h) == handlers[h].request.body.value.ip \notin {Absent, None}

\* what the request has to pass before a packet may be sent
FieldsPass(h) ==
  /\ validate_mac(RequestMac(h)).ok
  /\ IpSupplied(h) => validate_ip(RequestIp(h)).ok
  /\ ~name_too_long(RequestName(h))

PacketBuiltOrSent(h) ==
  handlers[h].pc = "send" \/ handlers[h].built \/ handlers[h].datagrams # <<>>

\* C16: a handler goes Received, Validated, Built, Sent: a packet is built
\* and sent only after the mac passed validate_mac, the ip, when the body
\* supplies one, passed validate_ip, and the name has at most 100
\* characters; a request with a missing or invalid mac, an ip validate_ip
\* rejects or a longer name is answered 400 with no packet built or sent
C16_SendOnlyAfterValidation ==
  \A h \in Connections :
    ReachedFieldChecks(h) =>
      /\ PacketBuiltOrSent(h) => FieldsPass(h)
      /\ (~FieldsPass(h) /\ handlers[h].pc = "done") =>
           /\ handlers[h].response.status_code = 400
           /\ ~PacketBuiltOrSent(h)


\* handler h has answered a POST /wake that declared more than 1024 bytes
AnsweredOversized(h) ==
  /\ handlers[h].pc = "done"
  /\ handlers[h].request.method = "POST"
  /\ handlers[h].request.path = "/wake"
  /\ content_length_of(handlers[h].request) > MAX_REQUEST_SIZE

DeclaresJson(h) ==
  startswith(get(handlers[h].request.content_type, Str(<<>>)).chars, APPLICATION_JSON)

\* the answer 413 given without reading the body or sending a packet, one
\* security violation counted
Refused413(h) ==
  /\ handlers[h].response.status_code = 413
  /\ ~handlers[h].body_read
  /\ ~PacketBuiltOrSent(h)
  /\ handlers[h].incremented.security_violations = 1

\* C17: any POST /wake whose declared body length exceeds 1024 bytes is
\* answered 413; the body is not read or parsed, no packet is sent and
\* security_violations increases by 1
C17_OversizedAnswered413 ==
  \A h \in Connections : AnsweredOversized(h) => Refused413(h)

\* C17 as the code has it: a POST /wake with a Content-Type starting with
\* application/json whose declared body length exceeds 1024 bytes is
\* answered 413; the body is not read or parsed, no packet is sent and
\* security_violations increases by 1
C17_OversizedJsonAnswered413 ==
  \A h \in Connections : (AnsweredOversized(h) /\ DeclaresJson(h)) => Refused413(h)

\* a request declaring 2000 bytes, whose body holds an injection attempt,
\* was refused with one violation counted
C17_Witness ==
  \E h \in Connections :
    /\ AnsweredOversized(h)
    /\ DeclaresJson(h)
    /\ Refused413(h)
    /\ RequestMac(h) = Str(DROP_TABLE)
    /\ server_stats.security_violations = 1


\* handler h has answered a POST /wake that passed every validation step
\* and so called send_magic_packet
AnsweredValidated(h) ==
  /\ handlers[h].pc = "done"
  /\ route(handlers[h].request).proceeds

\* the socket calls of handler h transmitted the whole packet
TransmittedAll(h) ==
  /\ handlers[h].outcome.kind = "sendto_returns"
  /\ handlers[h].outcome.bytes_sent = PACKET_SIZE

\* C18: a POST /wake that passed every validation step is answered 200,
\* with packet_size 102, exactly when the send transmitted all 102 bytes,
\* and 500 on every transport failure (timeout, partial send, socket
\* error); no other status code is possible after validation
C18_ValidatedAnswer ==
  \A h \in Connections :
    AnsweredValidated(h) =>
      /\ handlers[h].outcome # NoOutcome
      /\ handlers[h].response.status_code \in {200, 500}
      /\ handlers[h].response.status_code = 200 <=> TransmittedAll(h)
      /\ handlers[h].response.status_code = 200 =>
           handlers[h].response.packet_size = PACKET_SIZE
      /\ handlers[h].response.status_code = 500 =>
           handlers[h].response.message = "Failed to send magic packet"

\* one request answered 200 with packet_size 102 after a complete send
C18_Witness ==
  \E h \in Connections :
    /\ AnsweredValidated(h)
    /\ TransmittedAll(h)
    /\ handlers[h].response.status_code = 200
    /\ handlers[h].response.packet_size = PACKET_SIZE
    /\ server_stats.magic_packets_sent >= 1


(***************************************************************************)
(* The counters                                                            *)
(***************************************************************************)
\* C19: after process start no operation (validator, packet builder,
\* sender, GET or POST handler, health check) decreases or resets a
\* counter: across every step each of requests_handled,
\* magic_packets_sent, validation_errors and security_violations is at
\* least what it was
C19_CountersNeverDecrease ==
  [][\A k \in CounterNames : server_stats'[k] >= server_stats[k]]_vars

\* a health check answered after an earlier request: it shows the counters
\* as they stand, the earlier request included
C19_Witness ==
  \E h \in Connections :
    /\ handlers[h].pc = "done"
    /\ handlers[h].request.method = "GET"
    /\ handlers[h].request.path = "/health"
    /\ handlers[h].response.health = server_stats
    /\ server_stats.requests_handled = 2
    /\ server_stats.security_violations = 1


\* C20: increments are not lost when requests arrive concurrently: once
\* every request taken has been answered, requests_handled equals the
\* number of requests answered and magic_packets_sent, validation_errors
\* and security_violations each equal the number of requests that took
\* the corresponding path
C20_NoLostIncrements ==
  (\A h \in Connections : ~Running(h)) =>
    /\ server_stats.requests_handled = completed.count
    /\ \A k \in CounterNames : server_stats[k] = completed.paths[k]

\* two requests answered, one with a packet sent and one refused for an
\* injection attempt, while both connections are closed again
C20_Witness ==
  /\ \A h \in Connections : handlers[h].pc = "idle"
  /\ completed.count = 2
  /\ server_stats = [requests_handled |-> 2, magic_packets_sent |-> 1,
                     validation_errors |-> 1, security_violations |-> 1]


(***************************************************************************)
(* The alternate destinations and ports of a send                          *)
(***************************************************************************)
ForwardCalled == last.op = "forward_wol_packet"

\* send_magic_packet_python was called and reached its loop over the ports
PortsLoopReached ==
  /\ last.op = "send_magic_packet_python"
  /\ last.opened = 1
  /\ ~last.sockets.setsockopt_raises

\* the sends of the outcomes that transmitted the whole packet
CompleteSends(outcomes) ==
  { i \in 1..Len(outcomes) :
      outcomes[i].kind = "sendto_returns" /\ outcomes[i].bytes_sent = PACKET_SIZE }

\* C21: a send that fails or times out does not abort the sends after it:
\* forward_wol_packet makes its six sends in the order port 9 to the global
\* broadcast, the local broadcast, the target, then port 7 to the same
\* three, whatever their outcomes, and returns the number of complete
\* sends; send_magic_packet_python, its socket made, sends to port 9 and
\* to port 7 and returns True exactly when one of the two was complete
C21_FailedSendDoesNotAbort ==
  /\ ForwardCalled =>
        /\ last.attempts = ForwardAddresses
        /\ ~last.raised
        /\ last.total_sent = Cardinality(CompleteSends(last.outcomes))
  /\ PortsLoopReached =>
        /\ Len(last.datagrams) = Len(APP_PORTS)
        /\ \A i \in 1..Len(APP_PORTS) :
              last.datagrams[i].address = [ip |-> APP_BROADCAST, port |-> APP_PORTS[i]]
        /\ last.ok <=> CompleteSends(last.sockets.ports) # {}

\* the first send timed out and the five after it were made and complete
C21_Witness ==
  /\ ForwardCalled
  /\ last.outcomes[1].kind = "sendto_timeout"
  /\ Len(last.datagrams) = 6
  /\ last.total_sent = 5


\* the send of the last call failed: a timeout, a partial send or an error
\* of the socket
SendFailed ==
  /\ SendCalled
  /\ \/ last.outcome.kind \in {"socket_raises", "setsockopt_raises", "sendto_timeout", "sendto_raises"}
     \/ last.outcome.bytes_sent # PACKET_SIZE

\* C22: a failed send is terminal: one call of send_magic_packet hands at
\* most one datagram to sendto, and after a timeout, a partial send or a
\* socket error it returns a failure result with no packet counted and no
\* second sendto
C22_FailedSendIsTerminal ==
  /\ SendCalled => Len(last.datagrams) <= 1
  /\ SendFailed =>
        /\ ~last.result.success
        /\ last.result.error \in GenericErrors
        /\ server_stats.magic_packets_sent = last.packets_before

\* sendto timed out on a well-formed MAC: one datagram, a failure result
C22_Witness ==
  /\ SendFailed
  /\ last.outcome.kind = "sendto_timeout"
  /\ Len(last.datagrams) = 1
  /\ last.result.error = "Network timeout"


(***************************************************************************)
(* One packet for one MAC, whichever builder makes it                      *)
(***************************************************************************)
BuildersCalled == last.op = "builders"

\* the argument is a text that holds twelve hex digits and separators only
TwelveHexDigits(mac_address) ==
  /\ isinstance_str(mac_address)
  /\ LET digits_only == re_sub_separators(mac_address.chars)
     IN  Len(digits_only) = 12 /\ \A i \in 1..12 : is_hex(digits_only[i])

\* C23: for a MAC of twelve hex digits, every two builders that accept it
\* (create_magic_packet of wol_server.py, the packet of
\* send_magic_packet_python, parse_mac_address with build_magic_packet of
\* the scripts, create_magic_packet of the forwarder's test) return the same
\* 102 bytes
C23_BuildersAgree ==
  (BuildersCalled /\ TwelveHexDigits(input)) =>
    \A one, other \in BuilderNames :
      (last.packets[one].ok /\ last.packets[other].ok) =>
        /\ last.packets[one].bytes = last.packets[other].bytes
        /\ Len(last.packets[one].bytes) = PACKET_SIZE

\* a MAC that all four builders accept
C23_Witness ==
  /\ BuildersCalled
  /\ TwelveHexDigits(input)
  /\ \A builder \in BuilderNames : last.packets[builder].ok
  /\ last.packets["scripts"].bytes[7] # last.packets["scripts"].bytes[8]


(***************************************************************************)
(* Validation failures of POST /wake                                       *)
(***************************************************************************)
\* handler h has answered a POST /wake that it rejected for its body: the
\* body is not JSON, or it is an object whose mac is missing or invalid,
\* whose ip is invalid or whose name is too long
RejectedForValidation(h) ==
  /\ handlers[h].pc = "done"
  /\ handlers[h].request.method = "POST"
  /\ handlers[h].request.path = "/wake"
  /\ handlers[h].body_read
  /\ ~handlers[h].proceeds
  /\ handlers[h].request.body.kind = "json" => handlers[h].request.body.value.type = "dict"

\* C24: every POST /wake rejected for a validation failure (missing or
\* invalid mac, invalid ip, oversized name, malformed JSON) is answered with
\* a 4xx JSON error and increments validation_errors by exactly one
C24_ValidationFailureCounted ==
  \A h \in Connections :
    RejectedForValidation(h) =>
      /\ handlers[h].response.status_code \in 400..499
      /\ handlers[h].incremented.validation_errors = 1


(***************************************************************************)
(* The API key of the Flask server                                         *)
(***************************************************************************)
\* the configuration holds an api_key that is not blank
KeyConfigured ==
  /\ isinstance_str(environ.api_key)
  /\ \E i \in 1..Len(environ.api_key.chars) : environ.api_key.chars[i] \notin whitespace

\* the X-API-Key header of the request of h is the configured key
KeyPresented(h) == handlers[h].request.api_key = environ.api_key

Protected(h) == handlers[h].request.path \in {"/wol", "/status"}

\* nothing was run or sent for the request of h
NothingSent(h) ==
  /\ handlers[h].wakeonlan = NoCommand
  /\ handlers[h].datagrams = <<>>
  /\ ~handlers[h].built

\* C25: with a non-blank api_key configured, a request to /wol or /status
\* whose X-API-Key header is missing or differs from the key is answered
\* 401, the protected handler does not run and no magic packet is sent;
\* with no key or a blank key configured every request reaches the handler;
\* /health never requires a key
C25_ApiKeyGuard ==
  \A h \in Connections :
    handlers[h].pc = "done" =>
      /\ (Protected(h) /\ KeyConfigured /\ ~KeyPresented(h)) =>
            /\ handlers[h].response.status_code = 401
            /\ ~handlers[h].proceeds
            /\ NothingSent(h)
      /\ (Protected(h) /\ ~KeyConfigured) =>
            /\ handlers[h].response.status_code # 401
            /\ handlers[h].proceeds
      /\ handlers[h].request.path = "/health" =>
            /\ handlers[h].response.status_code = 200
            /\ handlers[h].proceeds

\* a key is configured and a POST /wol with another key was answered 401
C25_Witness ==
  \E h \in Connections :
    /\ handlers[h].pc = "done"
    /\ handlers[h].request.path = "/wol"
    /\ KeyConfigured
    /\ handlers[h].request.api_key \notin {Absent, environ.api_key}
    /\ validate_mac(handlers[h].request.body.value.mac).ok
    /\ handlers[h].response.status_code = 401


(***************************************************************************)
(* The fallback of send_magic_packet of app.py                             *)
(***************************************************************************)
\* the handler h answered a POST /wol for which it ran the wakeonlan command
RanWakeonlan(h) ==
  /\ handlers[h].pc = "done"
  /\ handlers[h].request.path = "/wol"
  /\ handlers[h].wakeonlan # NoCommand

WakeonlanSucceeded(h) ==
  handlers[h].wakeonlan.kind = "exit" /\ handlers[h].wakeonlan.returncode = 0

PythonCalled(h) == handlers[h].sockets # NoSockets

\* the Python sender made its socket and sent the whole packet to a port
PythonSucceeded(h) ==
  /\ PythonCalled(h)
  /\ ~handlers[h].sockets.socket_raises
  /\ ~handlers[h].sockets.setsockopt_raises
  /\ CompleteSends(handlers[h].sockets.ports) # {}

\* C26: send_magic_packet of app.py calls the Python sender whenever the
\* wakeonlan command did not succeed (non-zero exit, command missing,
\* timeout or another failure to run it) and never after it succeeded; the
\* result is a success whose method names the path that succeeded, and a
\* failure only when both paths failed
C26_FallbackInOrder ==
  \A h \in Connections :
    RanWakeonlan(h) =>
      /\ WakeonlanSucceeded(h) =>
            /\ ~PythonCalled(h)
            /\ handlers[h].response.status_code = 200
            /\ handlers[h].response.method = "wakeonlan"
      /\ ~WakeonlanSucceeded(h) => PythonCalled(h)
      /\ (~WakeonlanSucceeded(h) /\ PythonSucceeded(h)) =>
            /\ handlers[h].response.status_code = 200
            /\ handlers[h].response.method = "python"
      /\ handlers[h].response.status_code = 500 =>
            /\ ~WakeonlanSucceeded(h)
            /\ PythonCalled(h)
            /\ ~PythonSucceeded(h)


(***************************************************************************)
(* The forwarder's handle_client                                           *)
(***************************************************************************)
\* exactly 102 bytes: six bytes 0xFF, then sixteen times the same six bytes
WellFormedPacket(data) ==
  /\ Len(data) = 102
  /\ \A i \in 1..6 : data[i] = 255
  /\ \A i \in 13..102 : data[i] = data[i - 6]

\* thread t is past validate_magic_packet
Validated(t) ==
  forwarder.threads[t].pc \in {"forward", "load_forwarded", "store_forwarded", "finished"}

\* the datagram of t is the packet the test's create_magic_packet builds for
\* a MAC, and the MAC reported is that MAC in lower case with colons
ReportsMacOf(t) ==
  \A mac \in SENT_MACS :
    forwarder.threads[t].data = forwarder_test_magic_packet(mac).bytes =>
      forwarder.threads[t].mac_address =
        format_mac(lower(SelectSeq(mac, LAMBDA c : c # ":")), ":")

\* C27: handle_client forwards a datagram if and only if it is a
\* well-formed magic packet: every packet create_magic_packet produces is
\* accepted and the MAC reported is the packet's MAC; for any other datagram
\* the thread increments packets_received only, leaves packets_forwarded
\* alone and makes no send
C27_ForwardsIffMagicPacket ==
  \A t \in Threads :
    Validated(t) =>
      /\ forwarder.threads[t].is_valid <=> WellFormedPacket(forwarder.threads[t].data)
      /\ forwarder.threads[t].data \in MagicDatagrams =>
            forwarder.threads[t].is_valid /\ ReportsMacOf(t)
      /\ (forwarder.threads[t].is_valid /\ thread_at(t, "finished")) =>
            /\ forwarder.threads[t].sends = Len(ForwardAddresses)
            /\ forwarder.threads[t].wrote = {"packets_received", "packets_forwarded"}
      /\ ~forwarder.threads[t].is_valid =>
            /\ thread_at(t, "finished")
            /\ forwarder.threads[t].sends = 0
            /\ forwarder.threads[t].wrote = {"packets_received"}

\* after a datagram that was dropped, a packet of the test was forwarded
\* with its MAC reported
C27_Witness ==
  \E t \in Threads :
    /\ thread_at(t, "finished")
    /\ forwarder.threads[t].data = SAMPLE_PACKET
    /\ forwarder.threads[t].sends = 6
    /\ forwarder.threads[t].mac_address = lower(WellFormedMacSample)
    /\ forwarder.stats.packets_received = 2
    /\ forwarder.stats.packets_forwarded = forwarder.threads[t].total_sent

\* no thread of the forwarder is running
AllThreadsFinished == \A t \in Threads : thread_at(t, "idle") \/ thread_at(t, "finished")

\* C28: the statistics of the forwarder stay exact under every
\* interleaving of its threads: once all handler threads have finished,
\* packets_received is the number of datagrams dispatched and
\* packets_forwarded the total number of complete sends
C28_ForwarderStatsExact ==
  AllThreadsFinished =>
    /\ forwarder.stats.packets_received = forwarder.dispatched
    /\ forwarder.stats.packets_forwarded = forwarder.sent


(***************************************************************************)
(* The sockets of the senders                                              *)
(***************************************************************************)
SenderCalled == last.op \in {"send_magic_packet", "forward_wol_packet", "send_magic_packet_python"}

\* C29: every UDP socket a send operation opens is closed before the
\* operation returns, on the success path and on every failure path (socket
\* option failure, send exception, timeout, partial send), in
\* send_magic_packet of wol_server.py, in the forwarder's sends and in
\* send_magic_packet_python
C29_SocketsClosed == SenderCalled => last.closed = last.opened


(***************************************************************************)
(* The counters of one request                                             *)
(***************************************************************************)
\* C30: with requests handled one at a time, each GET or POST increases
\* requests_handled by exactly 1, whatever its path or outcome (a 404
\* included), and each of magic_packets_sent, validation_errors and
\* security_violations by at most 1, so magic_packets_sent never exceeds
\* requests_handled
C30_OneRequestOneCount ==
  /\ \A h \in Connections :
        /\ \A k \in CounterNames : handlers[h].incremented[k] <= 1
        /\ handlers[h].pc = "done" => handlers[h].incremented.requests_handled = 1
  /\ server_stats.magic_packets_sent <= server_stats.requests_handled
  /\ (\A h \in Connections : ~Running(h)) =>
        server_stats.requests_handled = completed.count

\* after a request answered 404, a POST /wake was answered 200: two
\* requests handled, one packet sent
C30_Witness ==
  /\ server_stats.requests_handled = 2
  /\ server_stats.magic_packets_sent = 1
  /\ \E h \in Connections :
       /\ handlers[h].pc = "done"
       /\ handlers[h].response.status_code = 200
       /\ handlers[h].request.path = "/wake"
       /\ handlers[h].incremented.magic_packets_sent = 1
  /\ completed.paths.magic_packets_sent = 1
  /\ completed.count = 2

====
